---- MODULE Spec2Model ----
(***************************************************************************)
(* ContractShield (python): the FastAPI pipeline driver                    *)
(* (fastapi/middleware.py), the risk / decision reducer (core/result.py),  *)
(* policy evaluation with the built-in CEL evaluator (cel/evaluator.py),   *)
(* PolicySet.get_route (core/contract.py), and OpenAPI route matching and  *)
(* $ref resolution (openapi/loader.py).  Each has its own specification    *)
(* over its own variables; the variables of the others do not change.      *)
(*                                                                         *)
(* Optional values (Python None) are sequences of length at most one:      *)
(* None is <<>> and a present value x is <<x>>.                            *)
(*                                                                         *)
(* The driver is modelled against the collaborator interface it calls:     *)
(* scanner.scan -> findings, validator.validate -> errors,                 *)
(* policy.find_route -> route or None, cel_evaluator.evaluate -> bool or   *)
(* raise.  The outcome of each such call is an input of the step.          *)
(***************************************************************************)
EXTENDS Integers, Sequences, FiniteSets, TLC

VARIABLES config, pc, request, context, vuln_hits, schema_hits, policy_hits,
          result, events, response, route, cel_context, supplied_identity, r_pc, r_hits, r_risk, r_decision,
          p_pc, p_policy, p_route, p_identity, p_hits, p_decision,
          g_pc, g_routes, g_method, g_path, g_before, g_found,
          o_pc, o_routes, o_path, o_found,
          ref_pc, ref_spec, ref_obj, ref_result,
          e_pc, e_expression, e_context, e_result, c_pc, c_expression,
          c_program, c_cache, c_used, c_calls, v_pc, v_result, v_rule_id,
          v_hits, rec_pc, rec_spec, rec_stack

vars == <<config, pc, request, context, vuln_hits, schema_hits, policy_hits,
          result, events, response, route, cel_context, supplied_identity, r_pc, r_hits, r_risk, r_decision,
          p_pc, p_policy, p_route, p_identity, p_hits, p_decision,
          g_pc, g_routes, g_method, g_path, g_before, g_found,
          o_pc, o_routes, o_path, o_found,
          ref_pc, ref_spec, ref_obj, ref_result,
          e_pc, e_expression, e_context, e_result, c_pc, c_expression,
          c_program, c_cache, c_used, c_calls, v_pc, v_result, v_rule_id,
          v_hits, rec_pc, rec_spec, rec_stack>>

driver_vars == <<config, pc, request, context, vuln_hits, schema_hits,
                 policy_hits, result, events, response, route, cel_context,
                 supplied_identity>>

\* What the policy evaluation of the request in flight worked on (the route
\* find_route returned, the cel_context built for its rules) and the identity
\* the application passed to set_identity for it.
policy_eval_vars == <<route, cel_context>>

reducer_vars == <<r_pc, r_hits, r_risk, r_decision>>

policy_vars == <<p_pc, p_policy, p_route, p_identity, p_hits, p_decision>>

\* The variables of the specifications of single functions other than the
\* reducer.
get_route_vars == <<g_pc, g_routes, g_method, g_path, g_before, g_found>>

openapi_vars == <<o_pc, o_routes, o_path, o_found>>

resolve_vars == <<ref_pc, ref_spec, ref_obj, ref_result>>

cel_vars == <<e_pc, e_expression, e_context, e_result>>

cache_vars == <<c_pc, c_expression, c_program, c_cache, c_used, c_calls>>

to_hits_vars == <<v_pc, v_result, v_rule_id, v_hits>>

load_vars == <<rec_pc, rec_spec, rec_stack>>

first_vars == <<policy_vars, get_route_vars, openapi_vars, resolve_vars>>

more_vars == <<cel_vars, cache_vars, to_hits_vars, load_vars>>

pure_vars == <<first_vars, more_vars>>

\* Everything but the variables of the built-in CEL evaluator.
not_cel_vars == <<driver_vars, reducer_vars, first_vars, cache_vars,
                  to_hits_vars, load_vars>>

\* Everything but the variables of the cel-python evaluator's cache.
not_cache_vars == <<driver_vars, reducer_vars, first_vars, cel_vars,
                    to_hits_vars, load_vars>>

\* Everything but the variables of ValidationResult.to_rule_hits.
not_to_hits_vars == <<driver_vars, reducer_vars, first_vars, cel_vars,
                      cache_vars, load_vars>>

\* Everything but the variables of the resolution of a document's references.
not_load_vars == <<driver_vars, reducer_vars, first_vars, cel_vars,
                   cache_vars, to_hits_vars>>

(***************************************************************************)
(* Bounds of the model.                                                    *)
(***************************************************************************)
MaxHits == 3
MaxFindings == 2
MaxSchemaErrors == 1
MaxBodySize == 1
MaxRules == 2
MaxRoutes == 2
MaxTemplates == 2

\* Atoms of a compound rule condition.
MaxAtoms == 3

\* Threads calling one evaluator, and calls each thread makes.
MaxThreads == 2

MaxCalls == 1

\* Errors of a validation result.
MaxErrors == 2

\* Nested _resolve_ref calls the interpreter allows.
MaxDepth == 8

(***************************************************************************)
(* Optional values.                                                        *)
(***************************************************************************)
None == <<>>

Some(x) == <<x>>

\* Python truthiness of an Optional[str]: None and "" are falsy.
Truthy(o) == o # None /\ o[1] # ""

\* Python `o or d` for an Optional[str] o and a str d.
OrElse(o, d) == IF Truthy(o) THEN o[1] ELSE d

Min(S) == CHOOSE x \in S : \A y \in S : x <= y

Max(S) == CHOOSE x \in S : \A y \in S : x >= y

min(a, b) == IF a <= b THEN a ELSE b

SeqsUpTo(S, n) == UNION {[1..k -> S] : k \in 0..n}

(***************************************************************************)
(* core/result.py: enums, RuleHit, RiskScore, Decision.                    *)
(***************************************************************************)
Action == {"ALLOW", "BLOCK", "MONITOR", "CHALLENGE"}

Severity == {"low", "med", "high", "critical"}

RiskLevel == {"none", "low", "med", "high", "critical"}

RuleHit(id, severity, message) ==
    [id |-> id, severity |-> severity, message |-> message]

severity_scores(sev) ==
    CASE sev = "low" -> 10
      [] sev = "med" -> 30
      [] sev = "high" -> 60
      [] sev = "critical" -> 100
      [] OTHER -> 0

RECURSIVE SumScores(_)
SumScores(hits) ==
    IF hits = <<>> THEN 0
    ELSE severity_scores(Head(hits).severity) + SumScores(Tail(hits))

RECURSIVE Factors(_)
Factors(hits) ==
    IF hits = <<>> THEN <<>>
    ELSE IF Truthy(Head(hits).message)
         THEN <<<<Head(hits).id, Head(hits).message[1]>>>> \o Factors(Tail(hits))
         ELSE Factors(Tail(hits))

RiskScore(score, level, factors) ==
    [score |-> score, level |-> level, factors |-> factors]

\* A plausible slip: the level is read off the capped total, not the maximum.
from_rule_hits_by_total(hits) ==
    IF hits = <<>> THEN RiskScore(0, "none", <<>>)
    ELSE LET total_score == min(100, SumScores(hits))
             level == IF total_score >= 100 THEN "critical"
                      ELSE IF total_score >= 60 THEN "high"
                      ELSE IF total_score >= 30 THEN "med"
                      ELSE IF total_score > 0 THEN "low"
                      ELSE "none"
         IN RiskScore(total_score, level, Factors(hits))

from_rule_hits(hits) ==
    IF hits = <<>> THEN RiskScore(0, "none", <<>>)
    ELSE LET max_score ==
                 Max({severity_scores(hits[i].severity) : i \in 1..Len(hits)})
             total_score == min(100, SumScores(hits))
             level == IF max_score >= 100 THEN "critical"
                      ELSE IF max_score >= 60 THEN "high"
                      ELSE IF max_score >= 30 THEN "med"
                      ELSE IF max_score > 0 THEN "low"
                      ELSE "none"
         IN RiskScore(total_score, level, Factors(hits))

Decision(action, status_code, reason, rule_hits, risk) ==
    [action |-> action, status_code |-> status_code, reason |-> reason,
     rule_hits |-> rule_hits, risk |-> risk]

Decision_allow == Decision("ALLOW", 200, None, <<>>, RiskScore(0, "none", <<>>))

Decision_block(reason, rule_hits) ==
    Decision("BLOCK", 403, Some(reason), rule_hits, from_rule_hits(rule_hits))

Decision_monitor(reason, rule_hits) ==
    Decision("MONITOR", 200, Some(reason), rule_hits, from_rule_hits(rule_hits))

(***************************************************************************)
(* fastapi/middleware.py: the reducer calls of the driver.                 *)
(***************************************************************************)
calculate_risk_score(hits) == from_rule_hits(hits)

\* A plausible slip: only CRITICAL hits block.
make_decision_critical_only(hits, risk_score) ==
    LET blocking == {i \in 1..Len(hits) : hits[i].severity \in {"critical"}}
    IN IF blocking # {}
       THEN Decision_block(OrElse(hits[Min(blocking)].message, "Policy violation"), hits)
       ELSE Decision_allow

make_decision(hits, risk_score) ==
    LET blocking == {i \in 1..Len(hits) : hits[i].severity \in {"critical", "high"}}
    IN IF blocking # {}
       THEN Decision_block(OrElse(hits[Min(blocking)].message, "Policy violation"), hits)
       ELSE Decision_allow

(***************************************************************************)
(* fastapi/middleware.py: ContractShieldConfig.                            *)
(***************************************************************************)
BlockResponseCode == 403

Modes == {"enforce", "monitor", "learning"}

\* core/contract.py: value sets of the policy enums.
UnmatchedAction == {"allow", "block", "monitor"}

RuleAction == {"allow", "block", "monitor"}

PolicyRule(id, condition, action, message) ==
    [id |-> id, condition |-> condition, action |-> action, message |-> message]

\* A policy: one route, whose rules are a cel rule with an id and a
\* message, a rule without a condition, and a cel rule without an id.
\* The fields are the ones the driver reads (find_route,
\* defaults.unmatched_action, rule.condition, rule.message); PolicySet in
\* core/contract.py names them get_route and defaults.unmatched_route_action
\* and keeps a rule's expression in rule.config.  The action values are
\* those of RuleAction and UnmatchedAction, none of which is "deny".
SamplePolicy ==
    [defaults |-> [mode |-> "enforce", unmatched_action |-> "block"],
     routes |-> <<[id |-> "users",
                   mode |-> Some("monitor"),
                   rules |-> <<PolicyRule(Some("auth"),
                                          Some("identity.authenticated == true"),
                                          "block", Some("Authentication required")),
                               PolicyRule(Some("legacy"), None, "allow", None),
                               PolicyRule(None, Some("request.body.json.admin == true"),
                                          "monitor", None)>>]>>]

\* Exclusion patterns are literal path prefixes ("/metrics", "/health"); a
\* path is its sequence of segments.
ExcludeConfigs == {<<>>, <<<<"metrics">>, <<"health">>>>}

Configs ==
    {c \in [mode : Modes,
            log_decisions : BOOLEAN,
            log_callback : BOOLEAN,
            exclude_paths : ExcludeConfigs,
            vuln_scanner : BOOLEAN,
            validate_request : BOOLEAN,
            openapi_spec : BOOLEAN,
            policy : {None, Some(SamplePolicy)},
            block_response_code : {BlockResponseCode},
            max_body_size : {MaxBodySize}] :
        \* validate_request is only read together with openapi_spec
        c.validate_request \/ c.openapi_spec}

(***************************************************************************)
(* Requests.  The body is its length, whether the content-type header      *)
(* contains application/json, and what json.loads makes of the bytes:      *)
(* "invalid" (JSONDecodeError), "falsy" ({}, [], 0, "", false, null) or    *)
(* "truthy".                                                               *)
(***************************************************************************)
Paths == {<<"health", "live">>, <<"api", "health">>}

Methods == {"GET", "POST"}

Requests ==
    {r \in [path : Paths,
            method : Methods,
            body_len : 0..(MaxBodySize + 1),
            json_content_type : BOOLEAN,
            body_kind : {"invalid", "falsy", "truthy"}] :
        /\ r.body_len = 0 => r.body_kind = "invalid"
        /\ ~r.json_content_type => r.body_kind = "invalid"
        /\ r.method = "GET" => r.body_len = 0 /\ ~r.json_content_type}

IsPrefix(p, s) == Len(p) <= Len(s) /\ SubSeq(s, 1, Len(p)) = p

\* re.Pattern.match: the pattern matches at the start of the path.
pattern_match(pattern, path) == IsPrefix(pattern, path)

\* A plausible slip: fullmatch instead of match.
is_excluded_fullmatch(patterns, path) ==
    \E i \in 1..Len(patterns) : patterns[i] = path

is_excluded(patterns, path) ==
    \E i \in 1..Len(patterns) : pattern_match(patterns[i], path)

ReadsBody(req) == req.method \in {"POST", "PUT", "PATCH", "DELETE"}

\* A plausible slip: >= instead of > in the size check.
build_context_raises_at_limit(req, max_body_size) ==
    /\ ReadsBody(req)
    /\ \/ req.body_len >= max_body_size
       \/ req.json_content_type /\ req.body_len > 0 /\ req.body_kind = "invalid"

\* _build_context raises ValueError.
build_context_raises(req, max_body_size) ==
    /\ ReadsBody(req)
    /\ \/ req.body_len > max_body_size
       \/ req.json_content_type /\ req.body_len > 0 /\ req.body_kind = "invalid"

\* The RequestContext _build_context returns when it does not raise.
build_context(req) ==
    LET body_raw_len == IF ReadsBody(req) THEN req.body_len ELSE 0
        body_json == IF ReadsBody(req) /\ req.json_content_type /\ body_raw_len > 0
                     THEN req.body_kind ELSE "none"
    IN [method |-> req.method,
        path |-> req.path,
        body |-> [present |-> body_raw_len > 0,
                  size_bytes |-> body_raw_len,
                  json |-> body_json],
        identity |-> [authenticated |-> FALSE]]

(***************************************************************************)
(* The evaluators, as the driver calls them.                               *)
(***************************************************************************)
\* What the scanner's detectors report (severity per detector family).
FindingKinds ==
    {[id |-> <<"vuln", "sqli">>, severity |-> "high",
      message |-> Some("SQL injection pattern detected")],
     [id |-> <<"vuln", "xss">>, severity |-> "high", message |-> None],
     [id |-> <<"vuln", "proto_pollution">>, severity |-> "critical",
      message |-> Some("Prototype pollution key")]}

to_rule_hit(f) == RuleHit(f.id, f.severity, f.message)

\* openapi_spec.get_operation: no operation, one without a JSON request
\* schema, one with a request schema.
Operations == {"none", "no_schema", "schema"}

validate_request_schema(ctx, operation, nerrors) ==
    IF operation = "none" THEN <<>>
    ELSE IF ctx.body.json = "truthy" /\ operation = "schema"
         THEN [i \in 1..nerrors |->
                  RuleHit(<<"schema", "request", "invalid">>, "med",
                          Some("schema violation"))]
         ELSE <<>>

\* The part of cel_context the model's expressions read.
cel_context_of(identity) ==
    [identity |-> [authenticated |-> identity.authenticated]]

\* PolicySet.get_effective_mode(route)
get_effective_mode(policy, found) ==
    IF found # None /\ Truthy(found[1].mode) THEN found[1].mode[1]
    ELSE policy.defaults.mode

\* cel_evaluator.evaluate(rule.condition, cel_context)
CelOutcomes == {"true", "false", "raise"}

\* evaluate_rules with the first evaluation error ending the loop.
RECURSIVE evaluate_rules_abort_on_error(_, _)
evaluate_rules_abort_on_error(rules, outcomes) ==
    IF rules = <<>> THEN <<>>
    ELSE LET rule == Head(rules)
             matches == Head(outcomes)
         IN IF ~Truthy(rule.condition)
            THEN evaluate_rules_abort_on_error(Tail(rules), Tail(outcomes))
            ELSE IF matches = "raise"
            THEN <<RuleHit(<<"policy", "cel_error", OrElse(rule.id, "unknown")>>,
                           "low", Some("CEL evaluation error"))>>
            ELSE (IF matches = "true" /\ rule.action = "deny"
                  THEN <<RuleHit(<<"policy", OrElse(rule.id, "rule")>>, "high",
                                 Some(OrElse(rule.message, "Policy rule triggered")))>>
                  ELSE <<>>)
                 \o evaluate_rules_abort_on_error(Tail(rules), Tail(outcomes))

RECURSIVE evaluate_rules(_, _)
evaluate_rules(rules, outcomes) ==
    IF rules = <<>> THEN <<>>
    ELSE LET rule == Head(rules)
             matches == Head(outcomes)
             hit == IF ~Truthy(rule.condition) THEN <<>>
                    ELSE IF matches = "raise"
                    THEN <<RuleHit(<<"policy", "cel_error", OrElse(rule.id, "unknown")>>,
                                   "low", Some("CEL evaluation error"))>>
                    ELSE IF matches = "true" /\ rule.action = "deny"
                    THEN <<RuleHit(<<"policy", OrElse(rule.id, "rule")>>, "high",
                                   Some(OrElse(rule.message, "Policy rule triggered")))>>
                    ELSE <<>>
         IN hit \o evaluate_rules(Tail(rules), Tail(outcomes))

evaluate_policy(policy, found, outcomes) ==
    IF found = None
    THEN IF policy.defaults.unmatched_action = "deny"
         THEN <<RuleHit(<<"policy", "unmatched">>, "high",
                        Some("No policy route matches"))>>
         ELSE <<>>
    ELSE evaluate_rules(found[1].rules, outcomes)

\* The hit lists each evaluator can hand to the driver for one context.
VulnOutcomes(cfg, ctx) ==
    IF cfg.vuln_scanner /\ ctx.body.json = "truthy"
    THEN {[i \in DOMAIN fs |-> to_rule_hit(fs[i])] :
             fs \in SeqsUpTo(FindingKinds, MaxFindings)}
    ELSE {<<>>}

SchemaOutcomes(cfg, ctx) ==
    IF cfg.validate_request /\ cfg.openapi_spec
    THEN {validate_request_schema(ctx, op, n) :
             op \in Operations, n \in 0..MaxSchemaErrors}
    ELSE {<<>>}

PolicyOutcomes(cfg) ==
    IF cfg.policy # None
    THEN LET policy == cfg.policy[1]
             lookups == {None} \cup {Some(policy.routes[i]) : i \in DOMAIN policy.routes}
         IN UNION {{[route |-> found,
                      hits |-> evaluate_policy(policy, found, outcomes)] :
                       outcomes \in [1..(IF found = None THEN 0 ELSE Len(found[1].rules))
                                     -> CelOutcomes]} :
                   found \in lookups}
    ELSE {[route |-> None, hits |-> <<>>]}

MiddlewareResult(decision, rule_hits, risk_score) ==
    [decision |-> decision, rule_hits |-> rule_hits, risk_score |-> risk_score]

\* _log_decision: the level of the record it emits, or None.
log_decision(res) ==
    IF res.decision.action = "BLOCK" THEN Some("warning")
    ELSE IF res.rule_hits # <<>> THEN Some("info")
    ELSE None

Response(kind, status_code, message) ==
    [kind |-> kind, status_code |-> status_code, message |-> message]

\* _block_response(reason, code): code is None or an int (`code or default`).
block_response(cfg, reason, code) ==
    Response("block",
             IF code # None /\ code[1] # 0 THEN code[1] ELSE cfg.block_response_code,
             Some(reason))

DownstreamStatus == {200, 404}

(***************************************************************************)
(* The variables of a specification that is not the one running keep the   *)
(* values below.                                                           *)
(***************************************************************************)
PolicyOff ==
    /\ p_pc = "off"
    /\ p_policy = None
    /\ p_route = None
    /\ p_identity = None
    /\ p_hits = <<>>
    /\ p_decision = None

GetRouteOff ==
    /\ g_pc = "off"
    /\ g_routes = <<>>
    /\ g_method = <<>>
    /\ g_path = ""
    /\ g_before = <<>>
    /\ g_found = None

OpenAPIOff ==
    /\ o_pc = "off"
    /\ o_routes = <<>>
    /\ o_path = <<>>
    /\ o_found = None

ResolveOff ==
    /\ ref_pc = "off"
    /\ ref_spec = None
    /\ ref_obj = None
    /\ ref_result = None

CelOff ==
    /\ e_pc = "off"
    /\ e_expression = <<>>
    /\ e_context = None
    /\ e_result = ""

CacheOff ==
    /\ c_pc = <<>>
    /\ c_expression = <<>>
    /\ c_program = <<>>
    /\ c_cache = <<>>
    /\ c_used = <<>>
    /\ c_calls = <<>>

ToHitsOff ==
    /\ v_pc = "off"
    /\ v_result = None
    /\ v_rule_id = ""
    /\ v_hits = <<>>

LoadOff ==
    /\ rec_pc = "off"
    /\ rec_spec = None
    /\ rec_stack = <<>>

FirstOff == PolicyOff /\ GetRouteOff /\ OpenAPIOff /\ ResolveOff

MoreOff ==
    /\ CelOff
    /\ CacheOff
    /\ ToHitsOff
    /\ LoadOff

PureOff == FirstOff /\ MoreOff

ReducerOff ==
    /\ r_pc = "off"
    /\ r_hits = <<>>
    /\ r_risk = None
    /\ r_decision = None

\* core/result.py Identity, by its authenticated flag.
Identities == [authenticated : BOOLEAN]

(***************************************************************************)
(* dispatch, one request at a time.                                        *)
(***************************************************************************)
Init ==
    /\ config \in Configs
    /\ pc = "idle"
    /\ request = None
    /\ context = None
    /\ vuln_hits = <<>>
    /\ schema_hits = <<>>
    /\ policy_hits = <<>>
    /\ result = None
    /\ events = <<>>
    /\ response = None
    /\ route = None
    /\ cel_context = None
    /\ supplied_identity = None
    /\ r_pc = "off"
    /\ r_hits = <<>>
    /\ r_risk = None
    /\ r_decision = None
    /\ PureOff

\* The server hands a request to dispatch.
Receive ==
    /\ pc \in {"idle", "done"}
    /\ \E req \in Requests : request' = Some(req)
    /\ pc' = "start"
    /\ context' = None
    /\ vuln_hits' = <<>>
    /\ schema_hits' = <<>>
    /\ policy_hits' = <<>>
    /\ result' = None
    /\ events' = <<>>
    /\ response' = None
    /\ route' = None
    /\ cel_context' = None
    /\ supplied_identity' = None
    /\ UNCHANGED <<config, reducer_vars, pure_vars>>

\* Path exclusion: return await call_next(request).
DispatchExcluded ==
    /\ pc = "start"
    /\ is_excluded(config.exclude_paths, request[1].path)
    /\ \E s \in DownstreamStatus : response' = Some(Response("downstream", s, None))
    /\ events' = events \o <<"call_next">>
    /\ pc' = "done"
    /\ UNCHANGED <<config, request, context, vuln_hits, schema_hits, policy_hits,
                   result, policy_eval_vars, supplied_identity, reducer_vars,
                   pure_vars>>

\* try: context = await self._build_context(request)
DispatchBuildContext ==
    /\ pc = "start"
    /\ ~is_excluded(config.exclude_paths, request[1].path)
    /\ LET req == request[1]
           read == IF ReadsBody(req) THEN <<"read_body">> ELSE <<>>
       IN IF build_context_raises(req, config.max_body_size)
          THEN IF config.mode = "enforce"
               THEN /\ response' = Some(block_response(config, "Request parsing failed",
                                                       Some(400)))
                    /\ events' = events \o read \o <<"block_response">>
                    /\ pc' = "done"
                    /\ context' = context
               ELSE /\ \E s \in DownstreamStatus :
                          response' = Some(Response("downstream", s, None))
                    /\ events' = events \o read \o <<"call_next">>
                    /\ pc' = "done"
                    /\ context' = context
          ELSE /\ context' = Some(build_context(req))
               /\ events' = events \o read \o <<"context">>
               /\ pc' = "built"
               /\ response' = response
    /\ UNCHANGED <<config, request, vuln_hits, schema_hits, policy_hits, result,
                   policy_eval_vars, supplied_identity, reducer_vars, pure_vars>>

\* Scan, validate, evaluate the policy, reduce, build the result and log it.
Evaluate ==
    /\ pc = "built"
    /\ \E vh \in VulnOutcomes(config, context[1]),
          sh \in SchemaOutcomes(config, context[1]),
          po \in PolicyOutcomes(config) :
          LET ph == po.hits
              all_hits == vh \o sh \o ph
              risk_score == calculate_risk_score(all_hits)
              decision == make_decision(all_hits, risk_score)
              res == MiddlewareResult(decision, all_hits, risk_score)
              ran == (IF config.vuln_scanner /\ context[1].body.json = "truthy"
                      THEN <<"scan">> ELSE <<>>)
                     \o (IF config.validate_request /\ config.openapi_spec
                         THEN <<"validate">> ELSE <<>>)
                     \o (IF config.policy # None THEN <<"policy">> ELSE <<>>)
              logged == IF config.log_decisions /\ log_decision(res) # None
                        THEN <<"log">> ELSE <<>>
          IN /\ vuln_hits' = vh
             /\ schema_hits' = sh
             /\ policy_hits' = ph
             /\ route' = po.route
             /\ cel_context' = IF po.route = None THEN None
                               ELSE Some(cel_context_of(context[1].identity))
             /\ result' = Some(res)
             /\ events' = events \o ran \o <<"decision">> \o logged
    /\ pc' = IF config.log_callback THEN "callback" ELSE "respond"
    /\ UNCHANGED <<config, request, context, response, supplied_identity,
                   reducer_vars, pure_vars>>

\* self.config.log_callback(result) returns.
CallbackReturns ==
    /\ pc = "callback"
    /\ events' = events \o <<"callback">>
    /\ pc' = "respond"
    /\ UNCHANGED <<config, request, context, vuln_hits, schema_hits, policy_hits,
                   result, response, policy_eval_vars, supplied_identity,
                   reducer_vars, pure_vars>>

\* self.config.log_callback(result) raises: nothing in dispatch catches it.
CallbackRaises ==
    /\ pc = "callback"
    /\ events' = events \o <<"callback">>
    /\ response' = Some(Response("exception", 0, Some("log_callback raised")))
    /\ pc' = "done"
    /\ UNCHANGED <<config, request, context, vuln_hits, schema_hits, policy_hits,
                   result, policy_eval_vars, supplied_identity, reducer_vars,
                   pure_vars>>

\* Handle the block decision, or continue to the handler.
Respond ==
    /\ pc = "respond"
    /\ LET decision == result[1].decision
       IN IF decision.action = "BLOCK" /\ config.mode = "enforce"
          THEN /\ response' = Some(block_response(config,
                                                  OrElse(decision.reason, "Blocked by policy"),
                                                  None))
               /\ events' = events \o <<"block_response">>
          ELSE /\ \E s \in DownstreamStatus :
                     response' = Some(Response("downstream", s, None))
               /\ events' = events \o <<"call_next">>
    /\ pc' = "done"
    /\ UNCHANGED <<config, request, context, vuln_hits, schema_hits, policy_hits,
                   result, policy_eval_vars, supplied_identity, reducer_vars,
                   pure_vars>>

Next ==
    \/ Receive
    \/ DispatchExcluded
    \/ DispatchBuildContext
    \/ Evaluate
    \/ CallbackReturns
    \/ CallbackRaises
    \/ Respond

Spec == Init /\ [][Next]_vars

(***************************************************************************)
(* dispatch together with application code that calls set_identity for    *)
(* the request: before dispatch runs (an outer middleware) or inside       *)
(* call_next (an inner middleware, a dependency or the handler).           *)
(***************************************************************************)
\* set_identity(identity) on the value ctx of _request_context_var.
set_identity(ctx, identity) ==
    IF ctx # None THEN Some([ctx[1] EXCEPT !.identity = identity]) ELSE ctx

SetIdentity ==
    /\ \/ pc = "start"
       \/ pc = "done" /\ response[1].kind = "downstream"
    /\ supplied_identity = None
    /\ \E identity \in {i \in Identities : i.authenticated} :
          /\ supplied_identity' = Some(identity)
          /\ context' = set_identity(context, identity)
    /\ UNCHANGED <<config, pc, request, vuln_hits, schema_hits, policy_hits,
                   result, events, response, policy_eval_vars, reducer_vars,
                   pure_vars>>

InitIdentity ==
    /\ config \in {c \in Configs : c.policy # None /\ c.vuln_scanner
                                   /\ c.validate_request /\ c.openapi_spec
                                   /\ c.log_decisions /\ c.exclude_paths # <<>>}
    /\ pc = "idle"
    /\ request = None
    /\ context = None
    /\ vuln_hits = <<>>
    /\ schema_hits = <<>>
    /\ policy_hits = <<>>
    /\ result = None
    /\ events = <<>>
    /\ response = None
    /\ route = None
    /\ cel_context = None
    /\ supplied_identity = None
    /\ ReducerOff
    /\ PureOff

NextIdentity ==
    \/ Receive
    \/ SetIdentity
    \/ DispatchExcluded
    \/ DispatchBuildContext
    \/ Evaluate
    \/ CallbackReturns
    \/ CallbackRaises
    \/ Respond

SpecIdentity == InitIdentity /\ [][NextIdentity]_vars

(***************************************************************************)
(* dispatch under configurations that set the status code of the block     *)
(* response: ContractShieldConfig.block_response_code, and the policy's     *)
(* defaults.response.blockStatusCode.                                      *)
(***************************************************************************)
BlockResponseCodes == {BlockResponseCode, 451}

\* SamplePolicy with a blockStatusCode in its defaults.
PolicyWithStatus(code) ==
    [defaults |-> [mode |-> SamplePolicy.defaults.mode,
                   unmatched_action |-> SamplePolicy.defaults.unmatched_action,
                   response_block_status_code |-> code],
     routes |-> SamplePolicy.routes]

StatusPolicies == {PolicyWithStatus(code) : code \in {BlockResponseCode, 429}}

StatusConfigs ==
    [mode : Modes,
     log_decisions : {TRUE},
     log_callback : BOOLEAN,
     exclude_paths : ExcludeConfigs \ {<<>>},
     vuln_scanner : {TRUE},
     validate_request : {TRUE},
     openapi_spec : {TRUE},
     policy : {None} \cup {Some(q) : q \in StatusPolicies},
     block_response_code : BlockResponseCodes,
     max_body_size : {MaxBodySize}]

InitStatus ==
    /\ config \in StatusConfigs
    /\ pc = "idle"
    /\ request = None
    /\ context = None
    /\ vuln_hits = <<>>
    /\ schema_hits = <<>>
    /\ policy_hits = <<>>
    /\ result = None
    /\ events = <<>>
    /\ response = None
    /\ route = None
    /\ cel_context = None
    /\ supplied_identity = None
    /\ ReducerOff
    /\ PureOff

SpecStatus == InitStatus /\ [][Next]_vars

(***************************************************************************)
(* The reducer on arbitrary hit lists.                                     *)
(***************************************************************************)
Messages == {None, Some(""), Some("first"), Some("second")}

Hits == {RuleHit(<<"rule">>, sev, m) : sev \in Severity, m \in Messages}

InitReducer ==
    /\ config \in {c \in Configs : c.mode = "enforce" /\ c.log_decisions /\ ~c.log_callback
                                   /\ c.exclude_paths = <<>> /\ c.vuln_scanner
                                   /\ c.validate_request /\ c.openapi_spec
                                   /\ c.policy = None}
    /\ pc = "idle"
    /\ request = None
    /\ context = None
    /\ vuln_hits = <<>>
    /\ schema_hits = <<>>
    /\ policy_hits = <<>>
    /\ result = None
    /\ events = <<>>
    /\ response = None
    /\ route = None
    /\ cel_context = None
    /\ supplied_identity = None
    /\ r_pc = "input"
    /\ r_hits \in SeqsUpTo(Hits, MaxHits)
    /\ r_risk = None
    /\ r_decision = None
    /\ PureOff

\* risk_score = RiskScore.from_rule_hits(hits); decision = _make_decision(hits, risk_score)
Reduce ==
    /\ r_pc = "input"
    /\ r_risk' = Some(calculate_risk_score(r_hits))
    /\ r_decision' = Some(make_decision(r_hits, calculate_risk_score(r_hits)))
    /\ r_pc' = "reduced"
    /\ UNCHANGED <<r_hits, driver_vars, pure_vars>>

NextReducer == Reduce

SpecReducer == InitReducer /\ [][NextReducer]_vars

(***************************************************************************)
(* _evaluate_policy and _make_decision as a function of the policy, the    *)
(* route find_route returns and the identity of the context, with the      *)
(* built-in CEL evaluator.                                                 *)
(***************************************************************************)
\* The fixed driver configuration of the specifications of single functions.
DriverOff ==
    /\ config \in {c \in Configs : c.mode = "enforce" /\ c.log_decisions /\ ~c.log_callback
                                   /\ c.exclude_paths = <<>> /\ c.vuln_scanner
                                   /\ c.validate_request /\ c.openapi_spec
                                   /\ c.policy = None}
    /\ pc = "idle"
    /\ request = None
    /\ context = None
    /\ vuln_hits = <<>>
    /\ schema_hits = <<>>
    /\ policy_hits = <<>>
    /\ result = None
    /\ events = <<>>
    /\ response = None
    /\ route = None
    /\ cel_context = None
    /\ supplied_identity = None

\* Nothing but the built-in CEL evaluator is running.
NotCelOff ==
    /\ DriverOff
    /\ ReducerOff
    /\ FirstOff
    /\ CacheOff
    /\ ToHitsOff
    /\ LoadOff

\* Nothing but the cel-python evaluator's cache is running.
NotCacheOff ==
    /\ DriverOff
    /\ ReducerOff
    /\ FirstOff
    /\ CelOff
    /\ ToHitsOff
    /\ LoadOff

\* Nothing but ValidationResult.to_rule_hits is running.
NotToHitsOff ==
    /\ DriverOff
    /\ ReducerOff
    /\ FirstOff
    /\ CelOff
    /\ CacheOff
    /\ LoadOff

\* Nothing but the resolution of a document's references is running.
NotLoadOff ==
    /\ DriverOff
    /\ ReducerOff
    /\ FirstOff
    /\ CelOff
    /\ CacheOff
    /\ ToHitsOff

\* Rule conditions: two that PATTERNS["auth_check"] matches and one that no
\* pattern matches.
CelExpressions ==
    {"identity.authenticated == true", "identity.authenticated == false",
     "has(identity.subject)"}

\* The first entry of PATTERNS that matches the expression, with its group.
cel_match(expression) ==
    IF expression = "identity.authenticated == true"
    THEN Some([pattern_name |-> "auth_check", group |-> "true"])
    ELSE IF expression = "identity.authenticated == false"
    THEN Some([pattern_name |-> "auth_check", group |-> "false"])
    ELSE None

\* BuiltinCELEvaluator.evaluate: "true", "false", or "raise" for
\* CELEvaluationError.
cel_evaluate(expression, cel_ctx) ==
    LET match == cel_match(expression)
    IN IF match = None THEN "raise"
       ELSE IF match[1].pattern_name = "auth_check"
       THEN LET expected == (match[1].group = "true")
                actual == cel_ctx.identity.authenticated
            IN IF actual = expected THEN "true" ELSE "false"
       ELSE "false"

RuleSamples ==
    {PolicyRule(id, condition, action, None) :
        id \in {None, Some("auth")},
        condition \in {None} \cup {Some(x) : x \in CelExpressions},
        action \in RuleAction}

PolicySamples ==
    {[defaults |-> [mode |-> "enforce", unmatched_action |-> u],
      routes |-> <<[id |-> "users", mode |-> None, rules |-> rules]>>] :
        u \in UnmatchedAction, rules \in SeqsUpTo(RuleSamples, MaxRules)}

InitPolicy ==
    /\ DriverOff
    /\ ReducerOff
    /\ MoreOff
    /\ p_pc = "input"
    /\ \E policy \in PolicySamples :
          /\ p_policy = Some(policy)
          /\ p_route \in {None, Some(policy.routes[1])}
    /\ p_identity \in {Some(i) : i \in Identities}
    /\ p_hits = <<>>
    /\ p_decision = None
    /\ GetRouteOff
    /\ OpenAPIOff
    /\ ResolveOff

\* hits = self._evaluate_policy(request, context), then the reducer.
EvaluatePolicy ==
    /\ p_pc = "input"
    /\ LET cel_ctx == cel_context_of(p_identity[1])
           rules == IF p_route = None THEN <<>> ELSE p_route[1].rules
           outcomes == [i \in 1..Len(rules) |->
                           IF Truthy(rules[i].condition)
                           THEN cel_evaluate(rules[i].condition[1], cel_ctx)
                           ELSE "false"]
           hits == evaluate_policy(p_policy[1], p_route, outcomes)
       IN /\ p_hits' = hits
          /\ p_decision' = Some(make_decision(hits, calculate_risk_score(hits)))
    /\ p_pc' = "evaluated"
    /\ UNCHANGED <<p_policy, p_route, p_identity, driver_vars, reducer_vars, more_vars,
                   get_route_vars, openapi_vars, resolve_vars>>

NextPolicy == EvaluatePolicy

SpecPolicy == InitPolicy /\ [][NextPolicy]_vars

(***************************************************************************)
(* PolicySet.get_route.  A method is the sequence of its characters, a     *)
(* path is a string.                                                       *)
(***************************************************************************)
\* str.upper() on one character of the model's alphabet.
upper_char(c) ==
    CASE c = "g" -> "G"
      [] c = "e" -> "E"
      [] c = "t" -> "T"
      [] c = "p" -> "P"
      [] c = "u" -> "U"
      [] OTHER -> c

upper(str) == [i \in 1..Len(str) |-> upper_char(str[i])]

RouteMatch(method, path) == [method |-> method, path |-> path]

\* get_route with `route.match.method == method` in place of the comparison
\* of the upper-cased methods.
RECURSIVE get_route_case_sensitive(_, _, _)
get_route_case_sensitive(routes, method, path) ==
    IF routes = <<>> THEN None
    ELSE LET found == Head(routes)
         IN IF found.match.method = method /\ found.match.path = path
            THEN Some(found)
            ELSE get_route_case_sensitive(Tail(routes), method, path)

RECURSIVE get_route(_, _, _)
get_route(routes, method, path) ==
    IF routes = <<>> THEN None
    ELSE LET method_upper == upper(method)
             found == Head(routes)
         IN IF upper(found.match.method) = method_upper /\ found.match.path = path
            THEN Some(found)
            ELSE get_route(Tail(routes), method, path)

MethodSamples ==
    {<<"G", "E", "T">>, <<"g", "e", "t">>, <<"G", "e", "t">>, <<"P", "U", "T">>,
     <<"p", "u", "t">>}

PathSamples == {"/users", "/users/", "/Users"}

RouteSamples ==
    {[id |-> id, match |-> RouteMatch(m, p)] :
        id \in {"first", "second"},
        m \in {<<"G", "E", "T">>, <<"g", "e", "t">>, <<"P", "U", "T">>},
        p \in {"/users", "/users/"}}

InitGetRoute ==
    /\ DriverOff
    /\ ReducerOff
    /\ MoreOff
    /\ PolicyOff
    /\ g_pc = "input"
    /\ g_routes \in SeqsUpTo(RouteSamples, MaxRoutes)
    /\ g_method \in MethodSamples
    /\ g_path \in PathSamples
    /\ g_before = <<>>
    /\ g_found = None
    /\ OpenAPIOff
    /\ ResolveOff

\* route = policy.get_route(method, path)
GetRoute ==
    /\ g_pc = "input"
    /\ g_before' = g_routes
    /\ g_found' = get_route(g_routes, g_method, g_path)
    /\ g_routes' = g_routes
    /\ g_pc' = "returned"
    /\ UNCHANGED <<g_method, g_path, driver_vars, reducer_vars, more_vars, policy_vars,
                   openapi_vars, resolve_vars>>

NextGetRoute == GetRoute

SpecGetRoute == InitGetRoute /\ [][NextGetRoute]_vars

(***************************************************************************)
(* OpenAPI route matching (openapi/loader.py).  A string is the sequence   *)
(* of its characters.  A path template is the sequence of its segments, a  *)
(* literal segment or a {name} segment; a request path is the sequence of  *)
(* its segments, each written after a "/".                                 *)
(***************************************************************************)
Lit(text) == [kind |-> "literal", text |-> text]

Param(name) == [kind |-> "param", name |-> name]

RECURSIVE join(_)
join(segments) ==
    IF segments = <<>> THEN <<>>
    ELSE <<"/">> \o Head(segments) \o join(Tail(segments))

\* The regex of one segment: "/" and the (escaped) characters of a literal,
\* or "/" and the named group (?P<name>[^/]+).
segment_regex(segment) ==
    <<[kind |-> "char", char |-> "/"]>> \o
    (IF segment.kind = "param"
     THEN <<[kind |-> "group", name |-> segment.name]>>
     ELSE [i \in 1..Len(segment.text) |-> [kind |-> "char", char |-> segment.text[i]]])

RECURSIVE template_regex(_)
template_regex(template) ==
    IF template = <<>> THEN <<>>
    ELSE segment_regex(Head(template)) \o template_regex(Tail(template))

\* _path_to_regex: the pattern between ^ and $, and the parameter names.
path_to_regex(template) ==
    [pattern |-> template_regex(template),
     params |-> [i \in 1..Len(SelectSeq(template, LAMBDA seg : seg.kind = "param")) |->
                    SelectSeq(template, LAMBDA seg : seg.kind = "param")[i].name]]

\* re.Pattern.match for ^pattern$: None, or Some of the captured groups as
\* <<name, value>> pairs.  $ matches at the end of the string and before a
\* newline that ends it; [^/]+ is greedy.
RECURSIVE regex_match(_, _)
regex_match(pattern, str) ==
    IF pattern = <<>>
    THEN IF str = <<>> \/ str = <<"\n">> THEN Some(<<>>) ELSE None
    ELSE LET token == Head(pattern)
         IN IF token.kind = "char"
            THEN IF str # <<>> /\ Head(str) = token.char
                 THEN regex_match(Tail(pattern), Tail(str))
                 ELSE None
            ELSE LET takes == {k \in 1..Len(str) :
                                 /\ \A i \in 1..k : str[i] # "/"
                                 /\ regex_match(Tail(pattern),
                                                SubSeq(str, k + 1, Len(str))) # None}
                 IN IF takes = {} THEN None
                    ELSE LET k == Max(takes)
                             rest == regex_match(Tail(pattern),
                                                 SubSeq(str, k + 1, Len(str)))
                         IN Some(<<<<token.name, SubSeq(str, 1, k)>>>> \o rest[1])

\* _parse_path: the RouteSchema of a template.
RouteSchema(template) ==
    [path |-> template,
     path_pattern |-> path_to_regex(template).pattern,
     path_params |-> path_to_regex(template).params]

\* RouteSchema.match(request_path): match.groupdict() or None.
route_match(schema, request_path) == regex_match(schema.path_pattern, request_path)

\* OpenAPISpec.find_route over self.routes.values().
RECURSIVE find_route(_, _)
find_route(routes, path) ==
    IF routes = <<>> THEN None
    ELSE LET params == route_match(Head(routes), path)
         IN IF params # None
            THEN Some([route |-> Head(routes), params |-> params[1]])
            ELSE find_route(Tail(routes), path)

TemplateSegments == {Lit(<<"m", "e">>), Lit(<<"7">>), Param("id")}

\* Templates of one or two segments that compile (a group name used twice
\* is an re.error).
Templates ==
    {<<a>> : a \in TemplateSegments} \cup
    {t \in {<<a, b>> : a, b \in TemplateSegments} :
        ~(t[1].kind = "param" /\ t[2].kind = "param")}

PathSegments == {<<>>, <<"m", "e">>, <<"7">>, <<"m", "e", "\n">>, <<"\n">>}

RequestPaths ==
    {<<a>> : a \in PathSegments} \cup {<<a, b>> : a, b \in PathSegments}

\* The templates of a spec in insertion order: self.routes is a dict keyed by
\* the template, so no template occurs twice.
SpecTemplates ==
    {ts \in SeqsUpTo(Templates, MaxTemplates) :
        \A i, j \in 1..Len(ts) : i # j => ts[i] # ts[j]}

InitOpenAPI ==
    /\ DriverOff
    /\ ReducerOff
    /\ MoreOff
    /\ PolicyOff
    /\ GetRouteOff
    /\ o_pc = "loaded"
    /\ \E ts \in SpecTemplates : o_routes = [i \in 1..Len(ts) |-> RouteSchema(ts[i])]
    /\ o_path \in RequestPaths
    /\ o_found = None
    /\ ResolveOff

\* result = spec.find_route(path)
FindRoute ==
    /\ o_pc = "loaded"
    /\ o_found' = find_route(o_routes, join(o_path))
    /\ o_pc' = "returned"
    /\ UNCHANGED <<o_routes, o_path, driver_vars, reducer_vars, more_vars, policy_vars,
                   get_route_vars, resolve_vars>>

NextOpenAPI == FindRoute

SpecOpenAPI == InitOpenAPI /\ [][NextOpenAPI]_vars

(***************************************************************************)
(* $ref resolution (openapi/loader.py).  A document value is a record      *)
(* with a kind: a str with its text, a dict with its items as <<key,       *)
(* value>> pairs in insertion order, or a list with its items as <<<<>>,   *)
(* value>> pairs.  A text or key is the sequence of its pieces: the        *)
(* characters "#", "/", "~", "0", "1" one by one, any other run of         *)
(* characters as one piece.                                                *)
(***************************************************************************)
Str(text) == [kind |-> "str", val |-> text, items |-> <<>>]

Dict(items) == [kind |-> "dict", val |-> <<>>, items |-> items]

List(values) == [kind |-> "list", val |-> <<>>,
                 items |-> [i \in 1..Len(values) |-> <<<<>>, values[i]>>]]

IsDict(v) == v.kind = "dict"

\* key in d, d[key]
HasKey(d, key) == \E i \in 1..Len(d.items) : d.items[i][1] = key

GetKey(d, key) == d.items[CHOOSE i \in 1..Len(d.items) : d.items[i][1] = key][2]

\* str.split("/")
RECURSIVE split(_)
split(text) ==
    IF \A i \in 1..Len(text) : text[i] # "/" THEN <<text>>
    ELSE LET i == Min({j \in 1..Len(text) : text[j] = "/"})
         IN <<SubSeq(text, 1, i - 1)>> \o split(SubSeq(text, i + 1, Len(text)))

\* str.replace(old, new) for a two-character old and a one-character new.
RECURSIVE replace(_, _, _)
replace(text, old, new) ==
    IF Len(text) < 2 THEN text
    ELSE IF text[1] = old[1] /\ text[2] = old[2]
    THEN <<new>> \o replace(SubSeq(text, 3, Len(text)), old, new)
    ELSE <<text[1]>> \o replace(Tail(text), old, new)

\* The loop of _get_ref_value over path_parts.
RECURSIVE walk(_, _)
walk(path_parts, current) ==
    IF path_parts = <<>>
    THEN IF IsDict(current) THEN Some(current) ELSE None
    ELSE LET part == replace(replace(Head(path_parts), <<"~", "1">>, "/"),
                             <<"~", "0">>, "~")
         IN IF IsDict(current) /\ HasKey(current, part)
            THEN walk(Tail(path_parts), GetKey(current, part))
            ELSE None

\* _get_ref_value(ref, source), spec being self._spec_cache[source].
get_ref_value(ref, spec) ==
    IF ~IsPrefix(<<"#", "/">>, ref) THEN None
    ELSE walk(split(SubSeq(ref, 3, Len(ref))), spec)

\* Python truthiness of an Optional[dict].
TruthyDict(o) == o # None /\ o[1].items # <<>>

\* _resolve_ref(obj, components, source)
RECURSIVE resolve_ref(_, _)
resolve_ref(obj, spec) ==
    IF ~IsDict(obj) THEN obj
    ELSE IF HasKey(obj, <<"$ref">>)
    THEN LET ref == GetKey(obj, <<"$ref">>).val
             resolved == get_ref_value(ref, spec)
         IN IF IsPrefix(<<"#", "/">>, ref) /\ TruthyDict(resolved)
            THEN resolve_ref(resolved[1], spec)
            ELSE obj
    ELSE Dict([i \in 1..Len(obj.items) |->
                 LET key == obj.items[i][1]
                     value == obj.items[i][2]
                 IN IF IsDict(value) THEN <<key, resolve_ref(value, spec)>>
                    ELSE IF value.kind = "list"
                    THEN <<key, [value EXCEPT !.items =
                                    [j \in 1..Len(value.items) |->
                                        IF IsDict(value.items[j][2])
                                        THEN <<<<>>, resolve_ref(value.items[j][2], spec)>>
                                        ELSE value.items[j]]]>>
                    ELSE <<key, value>>])

RefTo(pointer) == Dict(<<<<<<"$ref">>, Str(pointer)>>>>)

StringSchema == Dict(<<<<<<"type">>, Str(<<"string">>)>>>>)

\* The entries of the document's "c" object: A is absent, {}, a schema or a
\* string; B is absent, a reference to A or a schema whose items refer to A;
\* the keys "a/b" and "~1" are absent or a schema.  No references form a
\* cycle.
ComponentChoices ==
    [A : {<<>>, <<Dict(<<>>)>>, <<StringSchema>>, <<Str(<<"text">>)>>},
     B : {<<>>, <<RefTo(<<"#", "/", "c", "/", "A">>)>>,
          <<Dict(<<<<<<"items">>, RefTo(<<"#", "/", "c", "/", "A">>)>>>>)>>},
     slash : {<<>>, <<StringSchema>>},
     tilde : {<<>>, <<StringSchema>>}]

Entry(key, choice) == IF choice = <<>> THEN <<>> ELSE <<<<key, choice[1]>>>>

Document(c) ==
    Dict(<<<<<<"c">>,
             Dict(Entry(<<"A">>, c.A) \o Entry(<<"B">>, c.B)
                  \o Entry(<<"a", "/", "b">>, c.slash)
                  \o Entry(<<"~", "1">>, c.tilde))>>>>)

Documents == {Document(c) : c \in ComponentChoices}

\* A parameter, request body or response of an operation.
Pointers ==
    {<<"#", "/", "c", "/", "A">>, <<"#", "/", "c", "/", "B">>,
     <<"#", "/", "c", "/", "a", "~", "1", "b">>,
     <<"#", "/", "c", "/", "~", "0", "1">>,
     <<"#", "/", "c", "/", "Z">>,
     <<"other.yaml", "#", "/", "c", "/", "A">>}

OperationObjects ==
    {RefTo(ptr) : ptr \in Pointers} \cup
    {Dict(<<<<<<"schema">>, RefTo(<<"#", "/", "c", "/", "A">>)>>>>),
     Dict(<<<<<<"oneOf">>, List(<<RefTo(<<"#", "/", "c", "/", "B">>), Str(<<"text">>)>>)>>>>),
     Dict(<<<<<<"examples">>, List(<<List(<<RefTo(<<"#", "/", "c", "/", "A">>)>>)>>)>>>>),
     Str(<<"text">>)}

InitResolve ==
    /\ DriverOff
    /\ ReducerOff
    /\ MoreOff
    /\ PolicyOff
    /\ GetRouteOff
    /\ OpenAPIOff
    /\ ref_pc = "input"
    /\ ref_spec \in {Some(d) : d \in Documents}
    /\ ref_obj \in {Some(obj) : obj \in OperationObjects}
    /\ ref_result = None

\* self._resolve_ref(p, components, source) in _parse_operation
ResolveRef ==
    /\ ref_pc = "input"
    /\ ref_result' = Some(resolve_ref(ref_obj[1], ref_spec[1]))
    /\ ref_pc' = "resolved"
    /\ UNCHANGED <<ref_spec, ref_obj, driver_vars, reducer_vars, more_vars, policy_vars,
                   get_route_vars, openapi_vars>>

NextResolve == ResolveRef

SpecResolve == InitResolve /\ [][NextResolve]_vars

(***************************************************************************)
(* BuiltinCELEvaluator (cel/evaluator.py).                                 *)
(*                                                                         *)
(* A context value is a record with a kind: none, bool and int (num), a    *)
(* Python int beyond the range of float (bigint), str (text, its length in *)
(* num, and what float() makes of it), list and dict (items as <<key,      *)
(* value>> pairs, the key of a list item being "").                        *)
(*                                                                         *)
(* An expression is the sequence of its atoms and of the connectives      *)
(* " && " and " || " between them.  An atom is `<path> <op> <rhs>`,        *)
(* `size(<path>) <op> <rhs>`, `<path> in [<rhs>]` or a function call no    *)
(* pattern knows; a path is the sequence of its dot-separated names.       *)
(***************************************************************************)
Value(kind, num, text, items, float) ==
    [kind |-> kind, num |-> num, text |-> text, items |-> items, float |-> float]

NoneV == Value("none", 0, "", <<>>, None)

BoolV(b) == Value("bool", IF b THEN 1 ELSE 0, "", <<>>, None)

IntV(n) == Value("int", n, "", <<>>, None)

BigIntV == Value("bigint", 0, "", <<>>, None)

\* A str of the given length; float is Some(n) when float(text) is n and None
\* when float(text) raises ValueError.
StrV(text, length, float) == Value("str", length, text, <<>>, float)

ListV(values) == Value("list", 0, "", [i \in 1..Len(values) |-> <<"", values[i]>>], None)

DictV(items) == Value("dict", 0, "", items, None)

\* dict.get(part)
dict_get(d, part) ==
    IF \E i \in 1..Len(d.items) : d.items[i][1] = part
    THEN d.items[CHOOSE i \in 1..Len(d.items) : d.items[i][1] = part][2]
    ELSE NoneV

\* _get_value(context, path)
RECURSIVE get_value(_, _)
get_value(current, parts) ==
    IF parts = <<>> THEN current
    ELSE IF current.kind = "dict"
    THEN LET next == dict_get(current, Head(parts))
         IN IF next = NoneV THEN NoneV ELSE get_value(next, Tail(parts))
    ELSE NoneV

\* Python ==: bool is an int; values of different types are unequal.
py_eq(a, b) ==
    IF a.kind \in {"bool", "int"} /\ b.kind \in {"bool", "int"} THEN a.num = b.num
    ELSE a = b

\* The right-hand side of an atom as written: true, false, a quoted string,
\* an integer, or a bare dotted path (text as written, path its names).
Rhs(kind, text, num, path) == [kind |-> kind, text |-> text, num |-> num, path |-> path]

RhsTrue == Rhs("true", "true", 0, <<>>)

RhsFalse == Rhs("false", "false", 0, <<>>)

RhsQuoted(text, length) == Rhs("quoted", text, length, <<>>)

RhsNumber(n) == Rhs("number", "", n, <<>>)

RhsBare(text, path) == Rhs("bare", text, 0, path)

\* _parse_value(value_str)
parse_value(rhs) ==
    IF rhs.kind = "true" THEN BoolV(TRUE)
    ELSE IF rhs.kind = "false" THEN BoolV(FALSE)
    ELSE IF rhs.kind = "quoted" THEN StrV(rhs.text, rhs.num, None)
    ELSE IF rhs.kind = "number" THEN IntV(rhs.num)
    ELSE StrV(rhs.text, 0, None)

Atom(form, path, op, rhs) == [form |-> form, path |-> path, op |-> op, rhs |-> rhs]

Cmp(path, op, rhs) == Atom("cmp", path, op, <<rhs>>)

Size(path, op, rhs) == Atom("size", path, op, <<rhs>>)

In(path, values) == Atom("in", path, "in", values)

Call == Atom("call", <<>>, "", <<>>)

And == Atom("&&", <<>>, "", <<>>)

Or == Atom("||", <<>>, "", <<>>)

\* The first pattern of PATTERNS, in dict order, whose regex matches the atom,
\* or None.
match_pattern(atom) ==
    IF atom.form = "cmp"
    THEN LET rhs == atom.rhs[1]
         IN IF /\ atom.path = <<"identity", "authenticated">> /\ atom.op = "=="
               /\ rhs.kind \in {"true", "false"}
            THEN Some("auth_check")
            ELSE IF /\ atom.path = <<"identity", "tenant">> /\ atom.op = "=="
                    /\ rhs.kind = "bare" /\ Len(rhs.path) = 3
                    /\ SubSeq(rhs.path, 1, 2) = <<"request", "body">>
            THEN Some("tenant_binding")
            ELSE IF /\ atom.path = <<"identity", "subject">> /\ atom.op = "=="
                    /\ rhs.kind = "bare" /\ Len(rhs.path) = 3
                    /\ SubSeq(rhs.path, 1, 2) = <<"request", "body">>
            THEN Some("subject_binding")
            ELSE IF atom.op = "==" THEN Some("equality")
            ELSE IF atom.op = "!=" THEN Some("inequality")
            ELSE IF rhs.kind # "number" THEN None
            ELSE IF atom.op = ">" THEN Some("numeric_gt")
            ELSE IF atom.op = ">=" THEN Some("numeric_gte")
            ELSE IF atom.op = "<" THEN Some("numeric_lt")
            ELSE IF atom.op = "<=" THEN Some("numeric_lte")
            ELSE None
    ELSE IF atom.form = "in" THEN Some("membership")
    ELSE IF /\ atom.form = "size" /\ atom.op \in {"<=", "<", ">=", ">", "=="}
            /\ atom.rhs[1].kind = "number" /\ atom.rhs[1].num >= 0
    THEN Some("size_check")
    ELSE None

\* _compare(actual, operator, expected)
compare(actual, operator, expected) ==
    IF operator = "==" THEN actual = expected
    ELSE IF operator = "!=" THEN actual # expected
    ELSE IF operator = "<" THEN actual < expected
    ELSE IF operator = "<=" THEN actual <= expected
    ELSE IF operator = ">" THEN actual > expected
    ELSE IF operator = ">=" THEN actual >= expected
    ELSE FALSE

Bool(b) == IF b THEN "true" ELSE "false"

\* _evaluate_pattern: "true", "false", or the name of the exception raised.
evaluate_pattern(pattern_name, atom, ctx) ==
    IF pattern_name = "auth_check"
    THEN Bool(py_eq(get_value(ctx, <<"identity", "authenticated">>),
                    BoolV(atom.rhs[1].kind = "true")))
    ELSE IF pattern_name = "tenant_binding"
    THEN Bool(py_eq(get_value(ctx, <<"identity", "tenant">>),
                    get_value(ctx, <<"request", "body", "json", atom.rhs[1].path[3]>>)))
    ELSE IF pattern_name = "subject_binding"
    THEN Bool(py_eq(get_value(ctx, <<"identity", "subject">>),
                    get_value(ctx, <<"request", "body", "json", atom.rhs[1].path[3]>>)))
    ELSE IF pattern_name = "equality"
    THEN Bool(py_eq(get_value(ctx, atom.path), parse_value(atom.rhs[1])))
    ELSE IF pattern_name = "inequality"
    THEN Bool(~py_eq(get_value(ctx, atom.path), parse_value(atom.rhs[1])))
    ELSE IF pattern_name = "membership"
    THEN Bool(\E i \in 1..Len(atom.rhs) :
                 py_eq(get_value(ctx, atom.path), parse_value(atom.rhs[i])))
    ELSE IF pattern_name = "size_check"
    THEN LET value == get_value(ctx, atom.path)
         IN IF value.kind \in {"bool", "int", "bigint"} THEN "TypeError"
            ELSE Bool(compare(IF value.kind = "str" THEN value.num
                              ELSE Len(value.items),
                              atom.op, atom.rhs[1].num))
    ELSE LET actual == get_value(ctx, atom.path)
         IN IF actual = NoneV THEN "false"
            ELSE IF actual.kind = "bigint" THEN "OverflowError"
            ELSE IF actual.kind \in {"list", "dict"} THEN "false"
            ELSE IF actual.kind = "str" /\ actual.float = None THEN "false"
            ELSE Bool(compare(IF actual.kind = "str" THEN actual.float[1] ELSE actual.num,
                              atom.op, atom.rhs[1].num))

HasConnective(expression, connective) ==
    \E i \in 1..Len(expression) : expression[i].form = connective

\* expression.split(" && "), expression.split(" || ")
RECURSIVE split_on(_, _)
split_on(expression, connective) ==
    IF ~HasConnective(expression, connective) THEN <<expression>>
    ELSE LET i == Min({j \in 1..Len(expression) : expression[j].form = connective})
         IN <<SubSeq(expression, 1, i - 1)>>
            \o split_on(SubSeq(expression, i + 1, Len(expression)), connective)

\* The connective evaluate splits the expression on: || before &&.
connective_or_first(expression) ==
    IF HasConnective(expression, "||") THEN "||"
    ELSE IF HasConnective(expression, "&&") THEN "&&"
    ELSE ""

\* The connective evaluate splits the expression on, "" for none.
connective_of(expression) ==
    IF HasConnective(expression, "&&") THEN "&&"
    ELSE IF HasConnective(expression, "||") THEN "||"
    ELSE ""

\* BuiltinCELEvaluator.evaluate, with all(...) and any(...) over the
\* generator of the parts' values.
RECURSIVE evaluate(_, _)
RECURSIVE all_parts(_, _)
RECURSIVE any_parts(_, _)
all_parts(parts, ctx) ==
    IF parts = <<>> THEN "true"
    ELSE LET v == evaluate(Head(parts), ctx)
         IN IF v = "true" THEN all_parts(Tail(parts), ctx) ELSE v

any_parts(parts, ctx) ==
    IF parts = <<>> THEN "false"
    ELSE LET v == evaluate(Head(parts), ctx)
         IN IF v = "false" THEN any_parts(Tail(parts), ctx) ELSE v

evaluate(expression, ctx) ==
    IF connective_of(expression) = "&&"
    THEN all_parts(split_on(expression, "&&"), ctx)
    ELSE IF connective_of(expression) = "||"
    THEN any_parts(split_on(expression, "||"), ctx)
    ELSE LET match == match_pattern(expression[1])
         IN IF match # None
            THEN evaluate_pattern(match[1], expression[1], ctx)
            ELSE "CELEvaluationError"

\* The context the middleware builds for the rules of a route
\* (_evaluate_policy): the identity's attributes and the request's JSON body.
CelContext(authenticated, subject, tenant, json) ==
    DictV(<< <<"request", DictV(<< <<"body", DictV(<< <<"json", json>> >>)>> >>)>>,
             <<"identity", DictV(<< <<"authenticated", BoolV(authenticated)>>,
                                    <<"subject", subject>>,
                                    <<"tenant", tenant>> >>)>> >>)

Acme == StrV("acme", 4, None)

\* Values of the JSON body's tenantId field.
FieldValues ==
    { NoneV, BoolV(TRUE), IntV(5), BigIntV, Acme,
      StrV("10", 2, Some(10)),
      StrV("request.body.json.tenantId", 26, None),
      ListV(<<IntV(5)>>), DictV(<<>>) }

\* JSON bodies: none, an array, an empty object, an object with tenantId.
JsonBodies ==
    {NoneV, ListV(<<Acme>>), DictV(<<>>)}
        \cup {DictV(<< <<"tenantId", v>> >>) : v \in FieldValues}

\* Identity() as constructed by default, and an authenticated tenant's user.
CelIdentities ==
    { [authenticated |-> FALSE, subject |-> NoneV, tenant |-> NoneV],
      [authenticated |-> TRUE, subject |-> StrV("u1", 2, None), tenant |-> Acme] }

CelContexts ==
    {CelContext(i.authenticated, i.subject, i.tenant, j) :
        i \in CelIdentities, j \in JsonBodies}

TenantPath == <<"identity", "tenant">>

SubjectPath == <<"identity", "subject">>

FieldPath == <<"request", "body", "json", "tenantId">>

\* Paths on the left of a comparison: the body field, a path through it, and
\* a path with no mapping at its first name.
LeftPaths == {FieldPath, FieldPath \o <<"deep">>, <<"missing", "x">>}

AuthTrue == Cmp(<<"identity", "authenticated">>, "==", RhsTrue)

AuthFalse == Cmp(<<"identity", "authenticated">>, "==", RhsFalse)

\* identity.tenant == request.body.tenantId
TenantBinding ==
    Cmp(TenantPath, "==", RhsBare("request.body.tenantId", <<"request", "body", "tenantId">>))

\* identity.subject == request.body.tenantId
SubjectBinding ==
    Cmp(SubjectPath, "==", RhsBare("request.body.tenantId", <<"request", "body", "tenantId">>))

\* identity.tenant == request.body.json.tenantId, and its != form
TenantEqualsField == Cmp(TenantPath, "==", RhsBare("request.body.json.tenantId", FieldPath))

TenantDiffersFromField == Cmp(TenantPath, "!=", RhsBare("request.body.json.tenantId", FieldPath))

ComparisonOps == {">", ">=", "<", "<="}

SizeOps == {"<=", "<", ">=", ">", "=="}

\* Atoms that never look at the body; the parts of compound expressions.
SimpleAtoms == {AuthTrue, AuthFalse, Call}

SingleAtoms ==
    SimpleAtoms
        \cup {TenantBinding, SubjectBinding, TenantEqualsField, TenantDiffersFromField}
        \cup {Cmp(FieldPath, op, RhsNumber(5)) : op \in {"==", "!="}}
        \cup {Cmp(FieldPath, "==", RhsQuoted("acme", 4))}
        \cup {Cmp(path, op, RhsNumber(5)) : path \in LeftPaths, op \in ComparisonOps}
        \cup {Cmp(FieldPath, ">", RhsQuoted("acme", 4))}
        \cup {Size(FieldPath, op, RhsNumber(1)) : op \in SizeOps}
        \cup {Size(FieldPath, "!=", RhsNumber(1))}
        \cup {In(FieldPath, <<RhsNumber(5), RhsQuoted("acme", 4)>>)}

Connectives == {And, Or}

\* Expressions of n simple atoms joined by connectives.
RECURSIVE Compound(_)
Compound(n) ==
    IF n = 1 THEN {<<a>> : a \in SimpleAtoms}
    ELSE {e \o <<c, a>> : e \in Compound(n - 1), c \in Connectives, a \in SimpleAtoms}

CelSamples ==
    {<<a>> : a \in SingleAtoms} \cup UNION {Compound(n) : n \in 2..MaxAtoms}

InitCel ==
    /\ NotCelOff
    /\ e_pc = "call"
    /\ e_expression \in CelSamples
    /\ e_context \in CelContexts
    /\ e_result = ""

\* evaluator.evaluate(expression, context)
CelEvaluate ==
    /\ e_pc = "call"
    /\ e_result' = evaluate(e_expression, e_context)
    /\ e_pc' = "returned"
    /\ UNCHANGED <<e_expression, e_context, not_cel_vars>>

NextCel == CelEvaluate

SpecCel == InitCel /\ [][NextCel]_vars

(***************************************************************************)
(* CelPythonEvaluator.evaluate (cel/evaluator.py): calls from several      *)
(* threads on one evaluator.  The evaluator holds no lock, so a thread can *)
(* be preempted between any two statements; a dict lookup and a dict store *)
(* are each one step.  A program object is named by the thread and the     *)
(* call that created it.                                                   *)
(***************************************************************************)
Threads == 1..MaxThreads

\* Two expressions cel-python compiles and one it rejects.
CacheExpressions == {"a", "b", "("}

Compiles(expression) == expression # "("

\* self._env.program(ast): a new object at every call.
Program(t, n) == <<t, n>>

InitCache ==
    /\ NotCacheOff
    /\ c_pc = [t \in Threads |-> "idle"]
    /\ c_expression = [t \in Threads |-> ""]
    /\ c_program = [t \in Threads |-> None]
    /\ c_cache = [x \in CacheExpressions |-> None]
    /\ c_used = [t \in Threads |-> None]
    /\ c_calls = [t \in Threads |-> 0]

\* evaluate(expression, context) is entered.
CacheCall(t) ==
    /\ c_pc[t] \in {"idle", "returned", "raised"}
    /\ c_calls[t] < MaxCalls
    /\ \E x \in CacheExpressions : c_expression' = [c_expression EXCEPT ![t] = x]
    /\ c_calls' = [c_calls EXCEPT ![t] = @ + 1]
    /\ c_program' = [c_program EXCEPT ![t] = None]
    /\ c_used' = [c_used EXCEPT ![t] = None]
    /\ c_pc' = [c_pc EXCEPT ![t] = "check"]
    /\ UNCHANGED <<c_cache, not_cache_vars>>

\* if expression not in self._compiled_cache
CacheCheck(t) ==
    /\ c_pc[t] = "check"
    /\ c_pc' = [c_pc EXCEPT ![t] = IF c_cache[c_expression[t]] = None
                                   THEN "compile" ELSE "load"]
    /\ UNCHANGED <<c_expression, c_program, c_cache, c_used, c_calls, not_cache_vars>>

\* self._env.program(self._env.compile(expression)); an error is caught and
\* raised again as CELEvaluationError.
CacheCompile(t) ==
    /\ c_pc[t] = "compile"
    /\ IF Compiles(c_expression[t])
       THEN /\ c_program' = [c_program EXCEPT ![t] = Some(Program(t, c_calls[t]))]
            /\ c_pc' = [c_pc EXCEPT ![t] = "store"]
       ELSE /\ c_pc' = [c_pc EXCEPT ![t] = "raised"]
            /\ UNCHANGED c_program
    /\ UNCHANGED <<c_expression, c_cache, c_used, c_calls, not_cache_vars>>

\* self._compiled_cache[expression] = ...
CacheStore(t) ==
    /\ c_pc[t] = "store"
    /\ c_cache' = [c_cache EXCEPT ![c_expression[t]] = c_program[t]]
    /\ c_pc' = [c_pc EXCEPT ![t] = "load"]
    /\ UNCHANGED <<c_expression, c_program, c_used, c_calls, not_cache_vars>>

\* program = self._compiled_cache[expression]
CacheLoad(t) ==
    /\ c_pc[t] = "load"
    /\ c_program' = [c_program EXCEPT ![t] = c_cache[c_expression[t]]]
    /\ c_pc' = [c_pc EXCEPT ![t] = "evaluate"]
    /\ UNCHANGED <<c_expression, c_cache, c_used, c_calls, not_cache_vars>>

\* program.evaluate(activation)
CacheEvaluate(t) ==
    /\ c_pc[t] = "evaluate"
    /\ c_used' = [c_used EXCEPT ![t] = c_program[t]]
    /\ c_pc' = [c_pc EXCEPT ![t] = "returned"]
    /\ UNCHANGED <<c_expression, c_program, c_cache, c_calls, not_cache_vars>>

NextCache ==
    \E t \in Threads :
        \/ CacheCall(t)
        \/ CacheCheck(t)
        \/ CacheCompile(t)
        \/ CacheStore(t)
        \/ CacheLoad(t)
        \/ CacheEvaluate(t)

SpecCache == InitCache /\ [][NextCache]_vars

(***************************************************************************)
(* ValidationResult.to_rule_hits (core/result.py).  An error is a dict     *)
(* whose "message" and "path" keys may be absent (None) or present         *)
(* (Some); the result's own path and a hit's path are Optional[str].        *)
(***************************************************************************)
\* RuleHit(id=..., severity=..., message=..., path=...)
RuleHitAt(id, severity, message, path) ==
    [id |-> id, severity |-> severity, message |-> message, path |-> path]

ValidationError(message, path) == [message |-> message, path |-> path]

ValidationResult(valid, errors, path) ==
    [valid |-> valid, errors |-> errors, path |-> path]

\* error.get(key, default)
error_get(value, default) == IF value = None THEN default ELSE value[1]

\* to_rule_hits without the fall-back to the result's path.
to_rule_hits_error_path_only(self, rule_id) ==
    IF self.valid THEN <<>>
    ELSE [i \in 1..Len(self.errors) |->
            RuleHitAt(rule_id, "high",
                      error_get(self.errors[i].message, "Validation failed"),
                      self.errors[i].path)]

to_rule_hits(self, rule_id) ==
    IF self.valid THEN <<>>
    ELSE [i \in 1..Len(self.errors) |->
            RuleHitAt(rule_id, "high",
                      error_get(self.errors[i].message, "Validation failed"),
                      IF self.errors[i].path # None THEN self.errors[i].path
                      ELSE self.path)]

ValidationErrors ==
    {ValidationError(m, q) :
        m \in {None, Some("required"), Some("type")},
        q \in {None, Some("/body/id")}}

ValidationResults ==
    {ValidationResult(valid, errors, path) :
        valid \in BOOLEAN,
        errors \in SeqsUpTo(ValidationErrors, MaxErrors),
        path \in {None, Some("/body")}}

RuleIds == {"contract.validation", "openapi.request"}

InitToHits ==
    /\ NotToHitsOff
    /\ v_pc = "call"
    /\ v_result \in ValidationResults
    /\ v_rule_id \in RuleIds
    /\ v_hits = <<>>

\* result.to_rule_hits(rule_id)
ToRuleHits ==
    /\ v_pc = "call"
    /\ v_hits' = to_rule_hits(v_result, v_rule_id)
    /\ v_pc' = "returned"
    /\ UNCHANGED <<v_result, v_rule_id, not_to_hits_vars>>

NextToHits == ToRuleHits

SpecToHits == InitToHits /\ [][NextToHits]_vars

(***************************************************************************)
(* _resolve_ref call by call (openapi/loader.py), for documents whose      *)
(* references may form a cycle.  rec_stack holds the calls in progress: the *)
(* object each was given and how many of its recursive calls it has made.  *)
(* The interpreter raises RecursionError when the calls in progress reach   *)
(* its recursion limit, MaxDepth here.                                      *)
(***************************************************************************)
Frame(obj, next) == [obj |-> obj, next |-> next]

\* The dict items of a list, in order.
DictItems(value) ==
    LET F[i \in 0..Len(value.items)] ==
            IF i = 0 THEN <<>>
            ELSE IF IsDict(value.items[i][2]) THEN F[i - 1] \o <<value.items[i][2]>>
            ELSE F[i - 1]
    IN F[Len(value.items)]

\* The objects _resolve_ref(obj, components, source) calls itself on, in order.
recursive_calls(obj, spec) ==
    IF ~IsDict(obj) THEN <<>>
    ELSE IF HasKey(obj, <<"$ref">>)
    THEN LET ref == GetKey(obj, <<"$ref">>).val
             resolved == get_ref_value(ref, spec)
         IN IF IsPrefix(<<"#", "/">>, ref) /\ TruthyDict(resolved)
            THEN <<resolved[1]>>
            ELSE <<>>
    ELSE LET F[i \in 0..Len(obj.items)] ==
                 IF i = 0 THEN <<>>
                 ELSE LET value == obj.items[i][2]
                      IN IF IsDict(value) THEN F[i - 1] \o <<value>>
                         ELSE IF value.kind = "list" THEN F[i - 1] \o DictItems(value)
                         ELSE F[i - 1]
         IN F[Len(obj.items)]

PointerA == <<"#", "/", "c", "/", "A">>

PointerB == <<"#", "/", "c", "/", "B">>

\* Component schemas A and B without a cycle of references.
AcyclicComponents ==
    {[A |-> StringSchema, B |-> b] :
        b \in {StringSchema, RefTo(PointerA),
               Dict(<<<<<<"items">>, RefTo(PointerA)>>>>)}}
    \cup {[A |-> a, B |-> StringSchema] :
            a \in {RefTo(PointerB),
                   Dict(<<<<<<"allOf">>, List(<<RefTo(PointerB), StringSchema>>)>>>>)}}

\* A -> A; A -> B -> A; a node schema whose property refers to the node
\* schema; A -> B -> A through items and a list.
CyclicComponents ==
    {[A |-> RefTo(PointerA), B |-> StringSchema],
     [A |-> RefTo(PointerB), B |-> RefTo(PointerA)],
     [A |-> Dict(<<<<<<"properties">>,
                      Dict(<<<<<<"next">>, RefTo(PointerA)>>>>)>>>>),
      B |-> StringSchema],
     [A |-> Dict(<<<<<<"items">>, RefTo(PointerB)>>>>),
      B |-> Dict(<<<<<<"allOf">>, List(<<RefTo(PointerA)>>)>>>>)]}

LoadDocument(c) ==
    Dict(<<<<<<"c">>, Dict(<<<<<<"A">>, c.A>>, <<<<"B">>, c.B>>>>)>>>>)

AcyclicDocuments == {LoadDocument(c) : c \in AcyclicComponents}

CyclicDocuments == {LoadDocument(c) : c \in CyclicComponents}

\* A parameter, a request body and a response of an operation.
LoadObjects ==
    {RefTo(PointerA),
     Dict(<<<<<<"content">>, Dict(<<<<<<"schema">>, RefTo(PointerA)>>>>)>>>>),
     RefTo(PointerB),
     StringSchema}

InitLoad ==
    /\ NotLoadOff
    /\ rec_pc = "resolving"
    /\ rec_spec \in {Some(d) : d \in AcyclicDocuments \cup CyclicDocuments}
    /\ rec_stack \in {<<Frame(obj, 0)>> : obj \in LoadObjects}

\* The call on top of the stack makes its next recursive call.
LoadCall ==
    /\ rec_pc = "resolving"
    /\ LET top == rec_stack[Len(rec_stack)]
           calls == recursive_calls(top.obj, rec_spec[1])
       IN /\ top.next < Len(calls)
          /\ Len(rec_stack) < MaxDepth
          /\ rec_stack' = [rec_stack EXCEPT ![Len(rec_stack)].next = @ + 1]
                            \o <<Frame(calls[top.next + 1], 0)>>
    /\ UNCHANGED <<rec_pc, rec_spec, not_load_vars>>

\* The next recursive call would exceed the recursion limit: RecursionError
\* unwinds every call in progress and leaves load.
LoadRecursionError ==
    /\ rec_pc = "resolving"
    /\ LET top == rec_stack[Len(rec_stack)]
       IN top.next < Len(recursive_calls(top.obj, rec_spec[1]))
    /\ Len(rec_stack) = MaxDepth
    /\ rec_stack' = <<>>
    /\ rec_pc' = "RecursionError"
    /\ UNCHANGED <<rec_spec, not_load_vars>>

\* The call on top of the stack has made all its calls and returns.
LoadReturn ==
    /\ rec_pc = "resolving"
    /\ LET top == rec_stack[Len(rec_stack)]
       IN top.next = Len(recursive_calls(top.obj, rec_spec[1]))
    /\ rec_stack' = SubSeq(rec_stack, 1, Len(rec_stack) - 1)
    /\ rec_pc' = IF Len(rec_stack) = 1 THEN "returned" ELSE "resolving"
    /\ UNCHANGED <<rec_spec, not_load_vars>>

NextLoad ==
    \/ LoadCall
    \/ LoadRecursionError
    \/ LoadReturn

SpecLoad == InitLoad /\ [][NextLoad]_vars

(***************************************************************************)
(* Properties.                                                             *)
(***************************************************************************)
AllHits == vuln_hits \o schema_hits \o policy_hits

Blocking(hits) == {i \in 1..Len(hits) : hits[i].severity \in {"high", "critical"}}

Count(e) == Cardinality({i \in 1..Len(events) : events[i] = e})

Before(e, f) ==
    \A i, j \in 1..Len(events) : events[i] = e /\ events[j] = f => i < j

\* Some exclusion pattern matches the path from its first segment on.
MatchesFromStart(patterns, path) ==
    \E i \in 1..Len(patterns) :
        \A k \in 1..Len(patterns[i]) :
            k <= Len(path) /\ path[k] = patterns[i][k]

\* C1: in monitor mode the Decision that is produced, logged and passed to
\* the callback never has action BLOCK; a would-be BLOCK is a MONITOR
\* decision with status code 200 and the same hits.
C1_MonitorNeverBlocks ==
    (config.mode = "monitor" /\ result # None) =>
        /\ result[1].decision.action # "BLOCK"
        /\ Blocking(AllHits) # {} =>
              /\ result[1].decision.action = "MONITOR"
              /\ result[1].decision.status_code = 200
              /\ result[1].decision.rule_hits = AllHits

\* C2: for every hit list the decision is BLOCK exactly when some hit is
\* HIGH or CRITICAL; a BLOCK decision has as reason the message of the first
\* such hit, or 'Policy violation' when that hit has no message, carries the
\* whole hit list, and has status code 403.
C2_BlockIffHighOrCritical ==
    r_pc = "reduced" =>
        LET d == r_decision[1]
            first == {i \in Blocking(r_hits) : \A j \in Blocking(r_hits) : i <= j}
        IN /\ d.action = "BLOCK" <=> Blocking(r_hits) # {}
           /\ d.action \in {"BLOCK", "ALLOW"}
           /\ \A i \in first :
                 /\ d.reason = Some(IF r_hits[i].message \in {None, Some("")}
                                    THEN "Policy violation"
                                    ELSE r_hits[i].message[1])
                 /\ d.rule_hits = r_hits
                 /\ d.status_code = 403

\* C2 witness: a MED hit, then a HIGH hit without a message, then a CRITICAL
\* hit with one: the decision is BLOCK with the fixed reason.
C2_Witness ==
    /\ r_pc = "reduced"
    /\ Len(r_hits) = 3
    /\ r_hits[1].severity = "med"
    /\ r_hits[2].severity = "high" /\ r_hits[2].message = None
    /\ r_hits[3].severity = "critical" /\ r_hits[3].message = Some("second")
    /\ r_decision[1].action = "BLOCK"
    /\ r_decision[1].reason = Some("Policy violation")

\* C3: in enforce mode, a non-empty hit list whose hits are all LOW or MED
\* gives an ALLOW Decision whose ruleHits is the full hit list and whose
\* risk is the risk computed from those hits.
C3_AllowRecordsHits ==
    (/\ config.mode = "enforce"
     /\ result # None
     /\ AllHits # <<>>
     /\ \A i \in 1..Len(AllHits) : AllHits[i].severity \in {"low", "med"}) =>
        /\ result[1].decision.action = "ALLOW"
        /\ result[1].decision.rule_hits = AllHits
        /\ result[1].decision.risk = result[1].risk_score
        /\ result[1].decision.risk.score > 0

\* C4: the risk score is min(100, sum of weights) with weights LOW=10,
\* MED=30, HIGH=60, CRITICAL=100, so it lies in 0..100; the level is the
\* maximum severity among the hits; the empty list gives score 0 and level
\* NONE, and only the empty list gives level NONE.
C4_RiskScore ==
    r_pc = "reduced" =>
        LET r == r_risk[1]
            n(sev) == Cardinality({i \in 1..Len(r_hits) : r_hits[i].severity = sev})
            total == 10 * n("low") + 30 * n("med") + 60 * n("high") + 100 * n("critical")
        IN /\ r.score = IF total > 100 THEN 100 ELSE total
           /\ r.score >= 0 /\ r.score <= 100
           /\ r.level = IF n("critical") > 0 THEN "critical"
                        ELSE IF n("high") > 0 THEN "high"
                        ELSE IF n("med") > 0 THEN "med"
                        ELSE IF n("low") > 0 THEN "low"
                        ELSE "none"
           /\ r.level = "none" <=> r_hits = <<>>
           /\ r_hits = <<>> => r.score = 0

\* C4 witness: two HIGH hits and a MED hit sum to 150: the score is capped
\* at 100 while the level stays HIGH.
C4_Witness ==
    /\ r_pc = "reduced"
    /\ Len(r_hits) = 3
    /\ r_hits[1].severity = "high"
    /\ r_hits[2].severity = "med"
    /\ r_hits[3].severity = "high"
    /\ r_risk[1].score = 100
    /\ r_risk[1].level = "high"

\* C5: in every Decision and every MiddlewareResult the hit list is the
\* scanner's hits, then the schema hits, then the policy hits, each group
\* in the order its evaluator produced it.
C5_HitOrder ==
    result # None =>
        /\ result[1].rule_hits = vuln_hits \o schema_hits \o policy_hits
        /\ result[1].decision.rule_hits = vuln_hits \o schema_hits \o policy_hits

\* C6: for every non-excluded request whose context was built, either a
\* block response is returned and the downstream handler is never called,
\* exactly when the decision is BLOCK and the mode is enforce, or the
\* downstream handler is called exactly once and its response is returned.
C6_BlockXorForward ==
    (pc = "done" /\ context # None) =>
        LET block == result[1].decision.action = "BLOCK" /\ config.mode = "enforce"
        IN \/ /\ block
              /\ response[1].kind = "block"
              /\ Count("call_next") = 0
           \/ /\ ~block
              /\ response[1].kind = "downstream"
              /\ Count("call_next") = 1
              /\ Count("block_response") = 0

\* C7: a request whose path matches an exclusion pattern from the start is
\* forwarded to the downstream handler, in every mode, without the body
\* being read, a context built, an evaluator run, a Decision produced, a log
\* record emitted or the callback invoked.
C7_ExclusionShortCircuits ==
    (/\ request # None
     /\ pc # "start"
     /\ MatchesFromStart(config.exclude_paths, request[1].path)) =>
        /\ pc = "done"
        /\ events = <<"call_next">>
        /\ response[1].kind = "downstream"
        /\ context = None
        /\ result = None
        /\ AllHits = <<>>

\* C7 witness: in enforce mode, an excluded POST whose body is over the
\* size limit has been forwarded.
C7_Witness ==
    /\ pc = "done"
    /\ config.mode = "enforce"
    /\ request[1].path = <<"health", "live">>
    /\ config.exclude_paths # <<>>
    /\ request[1].method = "POST"
    /\ request[1].body_len > config.max_body_size
    /\ response[1].kind = "downstream"

\* The request makes context building fail: the body is over the limit, or
\* it is a non-empty body with a JSON content type that does not parse.
ContextBuildFails ==
    /\ request # None
    /\ ~MatchesFromStart(config.exclude_paths, request[1].path)
    /\ request[1].method = "POST"
    /\ \/ request[1].body_len > config.max_body_size
       \/ /\ request[1].json_content_type
          /\ request[1].body_len > 0
          /\ request[1].body_kind = "invalid"

\* C8: when context building fails, enforce mode returns a block response
\* with status 400 without calling the downstream handler and monitor mode
\* forwards; no evaluator runs and no decision is logged or passed to the
\* callback.  A body of exactly max_body_size bytes is not a failure.
C8_ContextBuildFailure ==
    /\ (ContextBuildFails /\ pc # "start") =>
          /\ pc = "done"
          /\ context = None
          /\ result = None
          /\ \A i \in 1..Len(events) : events[i] \in {"read_body", "block_response", "call_next"}
          /\ config.mode = "enforce" =>
                /\ response[1].kind = "block"
                /\ response[1].status_code = 400
                /\ Count("call_next") = 0
          /\ config.mode = "monitor" =>
                /\ response[1].kind = "downstream"
                /\ Count("call_next") = 1
                /\ Count("block_response") = 0
    /\ (/\ request # None
        /\ pc # "start"
        /\ ~MatchesFromStart(config.exclude_paths, request[1].path)
        /\ request[1].method = "POST"
        /\ request[1].body_len = config.max_body_size
        /\ ~(request[1].json_content_type /\ request[1].body_kind = "invalid")) =>
          context # None

\* C8 witness: in enforce mode an over-limit body was answered with 400.
C8_Witness ==
    /\ pc = "done"
    /\ config.mode = "enforce"
    /\ ContextBuildFails
    /\ request[1].body_len = config.max_body_size + 1
    /\ response[1].status_code = 400
    /\ events = <<"read_body", "block_response">>

\* C9: for every non-excluded request whose context was built, one Decision
\* is produced, exactly one log record is emitted for it when log_decisions
\* is on, whatever the action, the callback, if configured, is invoked
\* exactly once, and both precede the block response or the downstream call.
C9_OneLogRecordPerRequest ==
    (pc = "done" /\ context # None) =>
        /\ result # None
        /\ Count("decision") = 1
        /\ config.log_decisions => Count("log") = 1
        /\ config.log_callback => Count("callback") = 1
        /\ Before("log", "block_response") /\ Before("log", "call_next")
        /\ Before("callback", "block_response") /\ Before("callback", "call_next")

\* C10: if the log callback raises, the error is swallowed: the request
\* completes with the outcome it would have had otherwise, and no exception
\* crosses the middleware boundary.
C10_CallbackErrorSwallowed ==
    (pc = "done" /\ config.log_callback /\ result # None) =>
        /\ response[1].kind # "exception"
        /\ response[1].kind =
              IF result[1].decision.action = "BLOCK" /\ config.mode = "enforce"
              THEN "block" ELSE "downstream"

\* A rule of the route evaluated for the request whose expression raises.
RuleRaises(rule) ==
    /\ Truthy(rule.condition)
    /\ cel_evaluate(rule.condition[1], cel_context_of(p_identity[1])) = "raise"

IsCelErrorHit(hit) == Len(hit.id) = 3 /\ hit.id[2] = "cel_error"

\* C11: a rule whose expression raises gives exactly one LOW cel_error hit
\* for that rule, the remaining rules of the route are still evaluated in
\* order, a decision is produced, and cel_error hits alone never give BLOCK.
C11_CelErrorIsLowAndContinues ==
    (p_pc = "evaluated" /\ p_route # None) =>
        LET raising == SelectSeq(p_route[1].rules, RuleRaises)
            errors == SelectSeq(p_hits, IsCelErrorHit)
        IN /\ Len(errors) = Len(raising)
           /\ \A i \in 1..Len(raising) :
                 /\ errors[i].id = <<"policy", "cel_error",
                                     OrElse(raising[i].id, "unknown")>>
                 /\ errors[i].severity = "low"
           /\ p_decision # None
           /\ errors = p_hits => p_decision[1].action # "BLOCK"

C11_Witness ==
    /\ p_pc = "evaluated"
    /\ p_route # None
    /\ Len(p_route[1].rules) = 2
    /\ \A i \in 1..2 : RuleRaises(p_route[1].rules[i])
    /\ Len(p_hits) = 2
    /\ p_hits[1].id # p_hits[2].id
    /\ p_decision[1].action = "ALLOW"

\* The rule of the authentication scenario: id auth, action block.
IsAuthRule(rule) ==
    /\ rule.id = Some("auth")
    /\ rule.condition = Some("identity.authenticated == true")
    /\ rule.action = "block"

\* C12: on a route carrying the one rule auth (identity.authenticated ==
\* true, action block), an unauthenticated identity gives a BLOCK decision
\* with status 403 and a HIGH hit policy.auth; an authenticated identity
\* gives no hit.
C12_UnauthenticatedIsBlocked ==
    (/\ p_pc = "evaluated"
     /\ p_route # None
     /\ Len(p_route[1].rules) = 1
     /\ IsAuthRule(p_route[1].rules[1])) =>
        IF p_identity[1].authenticated
        THEN p_hits = <<>>
        ELSE /\ p_decision[1].action = "BLOCK"
             /\ p_decision[1].status_code = 403
             /\ \E i \in 1..Len(p_decision[1].rule_hits) :
                   /\ p_decision[1].rule_hits[i].id = <<"policy", "auth">>
                   /\ p_decision[1].rule_hits[i].severity = "high"

\* C13: when no route matches, unmatchedRouteAction alone decides the hit:
\* block gives one HIGH policy.unmatched hit, monitor one MED
\* policy.unmatched hit, allow none.
C13_UnmatchedRouteAction ==
    (p_pc = "evaluated" /\ p_route = None) =>
        LET action == p_policy[1].defaults.unmatched_action
        IN /\ action = "allow" => p_hits = <<>>
           /\ action = "block" =>
                 /\ Len(p_hits) = 1
                 /\ p_hits[1].id = <<"policy", "unmatched">>
                 /\ p_hits[1].severity = "high"
           /\ action = "monitor" =>
                 /\ Len(p_hits) = 1
                 /\ p_hits[1].id = <<"policy", "unmatched">>
                 /\ p_hits[1].severity = "med"

\* A rule whose expression evaluates to true for the request.
RuleTriggered(rule) ==
    /\ Truthy(rule.condition)
    /\ cel_evaluate(rule.condition[1], cel_context_of(p_identity[1])) = "true"

IsMonitorRule(rule) == RuleTriggered(rule) /\ rule.action = "monitor"

\* C14: triggered rules whose action is not block never give BLOCK: a
\* triggered allow rule contributes no hit, a triggered monitor rule
\* contributes a hit and the decision is MONITOR.
C14_NonBlockRulesNeverBlock ==
    (/\ p_pc = "evaluated"
     /\ p_route # None
     /\ \A i \in 1..Len(p_route[1].rules) :
           /\ ~RuleRaises(p_route[1].rules[i])
           /\ RuleTriggered(p_route[1].rules[i]) => p_route[1].rules[i].action # "block") =>
        LET monitored == SelectSeq(p_route[1].rules, IsMonitorRule)
        IN /\ p_decision[1].action # "BLOCK"
           /\ Len(p_hits) = Len(monitored)
           /\ monitored # <<>> => p_decision[1].action = "MONITOR"

\* The mode in force for the request: the matched route's override, or the
\* default mode the driver is configured with.
EffectiveMode ==
    get_effective_mode([defaults |-> [mode |-> config.mode]], route)

\* C15: the driver enforces the effective mode: a request is answered with
\* the block response exactly when its decision is BLOCK and the effective
\* mode (the matched route's override, else the default mode) is enforce.
C15_EffectiveModeIsEnforced ==
    (pc = "done" /\ result # None /\ response[1].kind # "exception") =>
        (response[1].kind = "block" <=>
            result[1].decision.action = "BLOCK" /\ EffectiveMode = "enforce")

\* C16: the rules of a request are evaluated against the identity the
\* application supplied for it, and against the default unauthenticated
\* identity only when none was supplied.
C16_RulesSeeSuppliedIdentity ==
    (pc \in {"callback", "respond"} /\ cel_context # None) =>
        cel_context[1].identity.authenticated =
            (supplied_identity # None /\ supplied_identity[1].authenticated)

\* One character with its case folded away.
FoldCase(c) ==
    IF c \in {"g", "G"} THEN "g"
    ELSE IF c \in {"e", "E"} THEN "e"
    ELSE IF c \in {"t", "T"} THEN "t"
    ELSE IF c \in {"p", "P"} THEN "p"
    ELSE IF c \in {"u", "U"} THEN "u"
    ELSE c

SameIgnoringCase(a, b) ==
    /\ Len(a) = Len(b)
    /\ \A i \in 1..Len(a) : FoldCase(a[i]) = FoldCase(b[i])

\* The positions of the routes that match the looked-up method and path.
MatchingRoutes ==
    {i \in 1..Len(g_before) :
        /\ SameIgnoringCase(g_before[i].match.method, g_method)
        /\ g_before[i].match.path = g_path}

\* C17: get_route returns the first route in list order whose method equals
\* the request method ignoring case and whose path equals the request path
\* exactly, None when there is none, and leaves the route list as it was.
C17_GetRouteFirstMatch ==
    g_pc = "returned" =>
        /\ g_routes = g_before
        /\ MatchingRoutes = {} => g_found = None
        /\ MatchingRoutes # {} => g_found = Some(g_before[Min(MatchingRoutes)])

C17_Witness ==
    /\ g_pc = "returned"
    /\ Cardinality(MatchingRoutes) = 2
    /\ g_before[1].match = g_before[2].match
    /\ g_before[1].match.method # g_method
    /\ g_found = Some(g_before[1])
    /\ g_found # Some(g_before[2])

\* A template matches a path when both have the same number of segments,
\* each literal segment is equal to the path's segment and each {name}
\* segment stands against a non-empty segment.
TemplateMatches(template, path) ==
    /\ Len(template) = Len(path)
    /\ \A i \in 1..Len(template) :
          IF template[i].kind = "literal"
          THEN template[i].text = path[i]
          ELSE path[i] # <<>>

\* The parameter map of a matching template.
Bindings(template, path) ==
    LET at == {i \in 1..Len(template) : template[i].kind = "param"}
        nth[i \in 0..Len(template)] ==
            IF i = 0 THEN <<>>
            ELSE IF i \in at THEN Append(nth[i - 1], <<template[i].name, path[i]>>)
            ELSE nth[i - 1]
    IN nth[Len(template)]

\* C18: find_route returns the first route in insertion order whose template
\* matches the whole path (same number of segments, literal segments equal,
\* each {name} segment bound to one non-empty segment) with the captured
\* parameters, and None when no template matches.
C18_FindRouteWholePath ==
    o_pc = "returned" =>
        LET matching == {i \in 1..Len(o_routes) :
                            TemplateMatches(o_routes[i].path, o_path)}
        IN IF matching = {} THEN o_found = None
           ELSE /\ o_found # None
                /\ o_found[1].route = o_routes[Min(matching)]
                /\ o_found[1].params = Bindings(o_routes[Min(matching)].path, o_path)

\* The same routes declared in the opposite order.
Reversed(routes) == [i \in 1..Len(routes) |-> routes[Len(routes) + 1 - i]]

\* C19: at most one route of a loaded spec matches a given path, so the
\* result of find_route does not depend on the declaration order.
C19_AtMostOneRouteMatches ==
    o_pc = "returned" =>
        /\ Cardinality({i \in 1..Len(o_routes) :
                           route_match(o_routes[i], join(o_path)) # None}) <= 1
        /\ find_route(Reversed(o_routes), join(o_path)) = o_found

\* One reference token of a JSON pointer decoded (~1 is "/", ~0 is "~").
RECURSIVE Decode(_)
Decode(token) ==
    IF token = <<>> THEN <<>>
    ELSE IF Len(token) >= 2 /\ token[1] = "~" /\ token[2] = "1"
    THEN <<"/">> \o Decode(SubSeq(token, 3, Len(token)))
    ELSE IF Len(token) >= 2 /\ token[1] = "~" /\ token[2] = "0"
    THEN <<"~">> \o Decode(SubSeq(token, 3, Len(token)))
    ELSE <<token[1]>> \o Decode(Tail(token))

\* The value a sequence of reference tokens leads to from v, or None.
RECURSIVE Lookup(_, _)
Lookup(tokens, v) ==
    IF tokens = <<>> THEN Some(v)
    ELSE IF IsDict(v) /\ HasKey(v, Decode(Head(tokens)))
    THEN Lookup(Tail(tokens), GetKey(v, Decode(Head(tokens))))
    ELSE None

IsRef(v) == IsDict(v) /\ HasKey(v, <<"$ref">>)

\* The local object a reference points to in the loaded document, or None
\* for a non-local reference or a missing target.
Target(v) ==
    LET pointer == GetKey(v, <<"$ref">>).val
        found == IF IsPrefix(<<"#", "/">>, pointer)
                 THEN Lookup(split(SubSeq(pointer, 3, Len(pointer))), ref_spec[1])
                 ELSE None
    IN IF found # None /\ IsDict(found[1]) THEN found ELSE None

\* Some reference inside v points to an existing local object.
RECURSIVE ContainsLiveRef(_)
ContainsLiveRef(v) ==
    IF IsRef(v) THEN Target(v) # None
    ELSE \E i \in 1..Len(v.items) : ContainsLiveRef(v.items[i][2])

\* The object at the end of a chain of references.
RECURSIVE EndOfChain(_)
EndOfChain(v) ==
    IF IsRef(v) /\ Target(v) # None THEN EndOfChain(Target(v)[1]) ELSE v

\* C20: after resolution an operation's object contains no $ref to an
\* existing local object: a reference is replaced by the target at the end
\* of its chain, with ~1 and ~0 decoded; a non-local reference and one
\* whose target is missing stay as they are.
C20_LocalRefsResolved ==
    ref_pc = "resolved" =>
        /\ ~ContainsLiveRef(ref_result[1])
        /\ (IsRef(ref_obj[1]) /\ Target(ref_obj[1]) = None) =>
              ref_result[1] = ref_obj[1]
        /\ (IsRef(ref_obj[1]) /\ ~ContainsLiveRef(EndOfChain(ref_obj[1]))) =>
              ref_result[1] = EndOfChain(ref_obj[1])


\* The value of one atom: "true", "false" or the error it raises.
AtomValue(atom, ctx) == evaluate(<<atom>>, ctx)

\* a and b, a or b, where b is looked at only when a does not decide.
AndThen(a, b) == IF a = "true" THEN b ELSE a

OrThen(a, b) == IF a = "false" THEN b ELSE a

IsSingle(form) == Len(e_expression) = 1 /\ e_expression[1].form = form

\* C21: `A && B` is (A and B) and `A || B` is (A or B), left to right with
\* short-circuit, so a B that is not reached raises nothing; with both
\* connectives the expression is split on && first: `A || B && C` is
\* (A || B) && C and `A && B || C` is A && (B || C).
C21_ShortCircuitConnectives ==
    e_pc = "returned" =>
        LET v(i) == AtomValue(e_expression[i], e_context)
        IN /\ Len(e_expression) = 3 =>
                e_result = IF e_expression[2] = And THEN AndThen(v(1), v(3))
                           ELSE OrThen(v(1), v(3))
           /\ Len(e_expression) = 5 =>
                e_result =
                    IF e_expression[2] = And /\ e_expression[4] = And
                    THEN AndThen(AndThen(v(1), v(3)), v(5))
                    ELSE IF e_expression[2] = Or /\ e_expression[4] = Or
                    THEN OrThen(OrThen(v(1), v(3)), v(5))
                    ELSE IF e_expression[2] = Or
                    THEN AndThen(OrThen(v(1), v(3)), v(5))
                    ELSE AndThen(v(1), OrThen(v(3), v(5)))

\* `authenticated == false || unsupported() && authenticated == true` for an
\* unauthenticated identity: the call is not reached and the value is false.
C21_Witness ==
    /\ e_pc = "returned"
    /\ e_expression = <<AuthFalse, Or, Call, And, AuthTrue>>
    /\ get_value(e_context, <<"identity", "authenticated">>) = BoolV(FALSE)
    /\ e_result = "false"

\* C22: in `<path> == <rhs>` and `<path> != <rhs>` a bare path on the right
\* is resolved against the context: `identity.tenant ==
\* request.body.json.tenantId` is true exactly when the tenant equals the
\* body's tenantId, as the binding form `identity.tenant ==
\* request.body.tenantId` is, and the != form is its negation.
C22_PathOnRightIsResolved ==
    e_pc = "returned" =>
        LET same == py_eq(get_value(e_context, TenantPath),
                          get_value(e_context, FieldPath))
        IN /\ e_expression = <<TenantEqualsField>> =>
                /\ e_result = Bool(same)
                /\ e_result = AtomValue(TenantBinding, e_context)
           /\ e_expression = <<TenantDiffersFromField>> => e_result = Bool(~same)

\* C23: `<path> (>|>=|<|<=) <number>` never raises: it is false when the
\* path is missing, is nil, passes through a non-mapping or resolves to a
\* string, list or object, and the numeric comparison otherwise.
C23_NumericComparisonNeverRaises ==
    (/\ e_pc = "returned" /\ IsSingle("cmp")
     /\ e_expression[1].op \in ComparisonOps
     /\ e_expression[1].rhs[1].kind = "number") =>
        LET value == get_value(e_context, e_expression[1].path)
        IN /\ e_result \in {"true", "false"}
           /\ value.kind \in {"none", "str", "list", "dict"} => e_result = "false"
           /\ value.kind = "int" =>
                e_result = Bool(compare(value.num, e_expression[1].op,
                                        e_expression[1].rhs[1].num))

\* C24: evaluate returns a boolean or raises CELEvaluationError, which it
\* raises for every expression outside the grammar; no other error escapes.
C24_OnlyCelErrorsEscape ==
    e_pc = "returned" =>
        /\ e_result \in {"true", "false", "CELEvaluationError"}
        /\ (Len(e_expression) = 1 /\ match_pattern(e_expression[1]) = None) =>
                e_result = "CELEvaluationError"

\* C30: a binding check `identity.tenant == request.body.<field>` (and the
\* subject form) is true only when the attribute is not nil and equals the
\* body field; for an identity without the attribute it is false.
C30_BindingNeedsAnAttribute ==
    (e_pc = "returned" /\ e_expression \in {<<TenantBinding>>, <<SubjectBinding>>}) =>
        LET attribute == get_value(e_context, e_expression[1].path)
            field == get_value(e_context, FieldPath)
        IN e_result = "true" <=> (attribute # NoneV /\ py_eq(attribute, field))


\* C25: the compiled-program cache is insert-if-absent under every
\* interleaving: an entry, once present, is never replaced by a different
\* program; all calls for an expression evaluate the same program object;
\* a failed compilation enters nothing.
C25_CacheInsertIfAbsent ==
    [][/\ \A x \in CacheExpressions :
            c_cache[x] # None => c_cache'[x] = c_cache[x]
       /\ \A t, u \in Threads :
            (/\ c_used'[t] # None /\ c_used'[u] # None
             /\ c_expression'[t] = c_expression'[u]) => c_used'[t] = c_used'[u]
       /\ \A x \in CacheExpressions : ~Compiles(x) => c_cache'[x] = None]_vars


\* C26: to_rule_hits returns the empty list for a valid result, and
\* otherwise one hit per error, in error order, each HIGH, with the given
\* rule id, the error's message or 'Validation failed', and the error's path
\* or the result's path.
C26_OneHighHitPerError ==
    v_pc = "returned" =>
        IF v_result.valid THEN v_hits = <<>>
        ELSE /\ Len(v_hits) = Len(v_result.errors)
             /\ \A i \in 1..Len(v_hits) :
                    LET error == v_result.errors[i]
                    IN /\ v_hits[i].id = v_rule_id
                       /\ v_hits[i].severity = "high"
                       /\ v_hits[i].message =
                            IF error.message = None THEN "Validation failed"
                            ELSE error.message[1]
                       /\ v_hits[i].path =
                            IF error.path = None THEN v_result.path
                            ELSE error.path

\* An invalid result with a path whose first error has neither message nor
\* path and whose second has both.
C26_Witness ==
    /\ v_pc = "returned"
    /\ ~v_result.valid
    /\ v_result.path # None
    /\ Len(v_result.errors) = 2
    /\ v_result.errors[1] = ValidationError(None, None)
    /\ v_result.errors[2].message # None /\ v_result.errors[2].path # None
    /\ Len(v_hits) = 2


\* C27: a synthesized response (400 on a context-build failure, the block
\* status on a BLOCK decision) is returned only in enforce mode; in every
\* other mode every non-excluded request reaches the downstream handler,
\* whatever hits were found.
C27_OnlyEnforceSynthesizes ==
    (pc = "done" /\ ~is_excluded(config.exclude_paths, request[1].path)) =>
        /\ response[1].kind = "block" => config.mode = "enforce"
        /\ config.mode # "enforce" =>
              /\ response[1].kind = "downstream"
              /\ Count("call_next") = 1


\* C28: for every blocked request the status code recorded in the Decision
\* equals the status code of the block response that is returned, whatever
\* block_response_code and policy blockStatusCode are configured.
C28_DecisionStatusIsResponseStatus ==
    (pc = "done" /\ result # None /\ response[1].kind = "block") =>
        result[1].decision.status_code = response[1].status_code


\* C29: loading with resolve_refs terminates for every document, also one
\* whose component schemas refer to themselves directly or through a cycle
\* and are reachable from an operation: the resolution of an operation's
\* object either has returned or can take a step.
C29_LoadTerminates == rec_pc = "returned" \/ ENABLED NextLoad

====
